---------------------------- MODULE Spec2Model ----------------------------
(***************************************************************************)
(* Model of the failure-rate library and the block aggregation of          *)
(* reliability_math.py (Eliot-Abramo/Reliability_Analysis).                *)
(*                                                                         *)
(* Numbers.  Python floats are modelled in fixed point.  A factor (pi_t,   *)
(* pi_n, pi_s, ...) is an integer number of thousandths ("milli").  A      *)
(* failure rate is an integer number of 1e-12 failures/hour (milli-FIT),   *)
(* so the code's final "* 1e-9" is the change of unit from the bracketed   *)
(* FIT sum to the value stored.  mat.exp and ** are evaluated through the  *)
(* tables ExpM and PowM, which hold the functions' values, rounded to      *)
(* 1e-3, at the arguments the model's inputs produce.                      *)
(*                                                                         *)
(* Cells.  A cell of the component table is NaN (an empty cell), Num(n),   *)
(* Str(s) (a category or a name) or Txt(c) (a text that the code parses,   *)
(* c being its characters).  A Python exception raised by an expression    *)
(* is the value Exc(t), t the exception's type name.                       *)
(*                                                                         *)
(* Specifications.  Spec is one call of calculate_block_reliability on a   *)
(* table of at most MaxRows rows.  SpecSeries is one call of               *)
(* series_reliability on a list of binary floats of Precision bits, whose  *)
(* products are rounded as IEEE 754 rounds them.                           *)
(***************************************************************************)
EXTENDS Integers, Sequences, FiniteSets, TLC

NaN == [k |-> "nan"]
Num(n) == [k |-> "num", n |-> n]
Str(s) == [k |-> "str", s |-> s]
Txt(c) == [k |-> "txt", c |-> c]
Exc(t) == [k |-> "exc", t |-> t]
\* Python's None: what row.get gives for a column the table does not have
None == [k |-> "none"]

IsNum(v) == v.k = "num"
IsExc(v) == v.k = "exc"
\* pd.isna on a scalar cell
isna(v) == v.k \in {"nan", "none"}

\* A cell used as a number in float arithmetic: a text or a category raises
\* TypeError, an empty cell is the float nan.
AsFloat(v) == IF v.k \in {"str", "txt"} THEN Exc("TypeError") ELSE v

-----------------------------------------------------------------------------
(* Module constants, reliability_math.py lines 28-32 *)
NI == 5256
DT == 3
T_MISSION == 43800
PI_I == 1
LEOS == 40

-----------------------------------------------------------------------------
(* mat.exp and ** in fixed point *)

\* mat.exp(a/1000) in thousandths.  mat.exp raises OverflowError above
\* 709.78; below, the value is tabulated at the arguments the model meets.
ExpM(a) ==
    IF a > 709782 THEN Exc("OverflowError")
    ELSE Num(CASE a = 0 -> 1000
               [] a = 750 -> 2117
               [] a = 850 -> 2340
               [] a = -3500 -> 30
               [] a = 579 -> 1785
               [] a = 684 -> 1983
               [] a = 744 -> 2104
               [] a = 588 -> 1801
               [] a = 882 -> 2416
               [] a = 781 -> 2184
               [] a = 586 -> 1797
               [] a = 1863 -> 6446
               [] a = 1185 -> 3272
               [] a = 889 -> 2433)

\* (x/1000) ** (e/1000) in thousandths, tabulated at the arguments the model
\* meets.
PowM(x, e) ==
    CASE x = 0 -> 0
      [] x = 1000 /\ e = 760 -> 1000
      [] x = 365000 /\ e = 760 -> 88582
      [] x = 1000000 /\ e = 760 -> 190546
      [] x = 5256000 /\ e = 760 -> 672509
      [] x = 8759000 /\ e = 760 -> 991438
      [] x = 8760000 /\ e = 760 -> 991524
      [] x = 8760000 /\ e = 600 -> 232008
      [] x = 8761000 /\ e = 600 -> 232024
      [] x = 10000000 /\ e = 600 -> 251189
      [] x = 17520000 /\ e = 600 -> 351658
      [] x = 35040000 /\ e = 600 -> 533014
      [] x = 87600000 /\ e = 600 -> 923639
      [] x = 10000 /\ e = 680 -> 4786
      [] x = 3000 /\ e = 680 -> 2111
      [] x = 16000 /\ e = 1680 -> 105420
      [] x = 21500 /\ e = 1680 -> 173180
      [] x = 5500 /\ e = 1680 -> 17531

(* Float arithmetic on cells and values: an operand that is an exception   *)
(* is the result (the left operand's first, as Python evaluates), and nan  *)
(* is absorbing.                                                           *)

K(n) == Num(n)

FAdd(a, b) ==
    IF IsExc(a) THEN a ELSE IF IsExc(b) THEN b
    ELSE IF isna(a) \/ isna(b) THEN NaN
    ELSE Num(a.n + b.n)

\* a * b for two values in thousandths
FMul(a, b) ==
    IF IsExc(a) THEN a ELSE IF IsExc(b) THEN b
    ELSE IF isna(a) \/ isna(b) THEN NaN
    ELSE Num((a.n * b.n) \div 1000)

\* a * (num / den) for a constant num / den
FScale(a, num, den) ==
    IF IsExc(a) THEN a ELSE IF isna(a) THEN NaN ELSE Num((a.n * num) \div den)

\* m * (a + c) for constants m and c
FLin(a, m, c) ==
    IF IsExc(a) THEN a ELSE IF isna(a) THEN NaN ELSE Num(m * (a.n + c))

\* a / b in thousandths, for a and b in the same unit: Python's true
\* division, which raises ZeroDivisionError on a zero divisor
FDiv(a, b) ==
    IF IsExc(a) THEN a ELSE IF IsExc(b) THEN b
    ELSE IF isna(a) \/ isna(b) THEN NaN
    ELSE IF b.n = 0 THEN Exc("ZeroDivisionError")
    ELSE Num((a.n * 1000) \div b.n)

\* mat.exp(a) for a in thousandths
FExp(a) == IF IsExc(a) THEN a ELSE IF isna(a) THEN NaN ELSE ExpM(a.n)

\* E * (1/Tref - 1/(273 + t)) in thousandths, for a temperature t in
\* thousandths of a degree Celsius; 1/(273 + t) raises ZeroDivisionError
\* at t = -273
Arrhenius(E, Tref, t) ==
    IF IsExc(t) THEN t ELSE IF isna(t) THEN NaN
    ELSE IF t.n + 273000 = 0 THEN Exc("ZeroDivisionError")
    ELSE Num((E * (t.n + 273000 - Tref * 1000)) \div ((Tref * (t.n + 273000)) \div 1000))

\* A temperature cell, given in degrees, in thousandths of a degree
Degrees(cell) == FLin(AsFloat(cell), 1000, 0)

\* pi_n(n_i) * (dt ** 0.68), in thousandths
CycleTerm(pin, dt) == (pin * PowM(dt * 1000, 680)) \div 1000

\* 2.75e-3 * s, in thousandths
Times275e5(s) == (s * 275) \div 100000

-----------------------------------------------------------------------------
(* Component characteristics, IEC pages 33-37 *)

\* lambda_1 in units of 1e-9; characteristics.get(car, 0)
l_1(car) ==
    IF car.k # "str" THEN 0
    ELSE CASE car.s = "MOS Standard, Digital circuits, 20000 transistors" -> 270000
           [] car.s = "MOS Standard, Digital circuits, 810 transistors" -> 270000
           [] car.s = "MOS Standard, Digital circuits, 2 gates" -> 3400
           [] car.s = "BICMOS, STAM, Static Read Access Memory, 8-bit" -> 680
           [] car.s = "MOS Asic, Gate Arrays, 12 gates" -> 20000
           [] car.s = "Bipolar, Linear/Digital circuit low voltage, 15 transistors" -> 270000
           [] car.s = "BICMOS, linear/digital circuits, high voltage, 500 transistors" -> 2700000
           [] car.s = "Bipolar circuits, linear/digital circuits, high voltage, 5000 transistors" -> 27000000
           [] car.s = "BICMOS, linear/digital circuits, high voltage, 20 transistors" -> 2700000
           [] car.s = "BICMOS, linear/digital circuits, low voltage, 20 transistors" -> 270000
           [] OTHER -> 0

\* lambda_2 in thousandths
l_2(car) ==
    IF car.k # "str" THEN 0
    ELSE CASE car.s = "MOS Standard, Digital circuits, 20000 transistors" -> 20000
           [] car.s = "MOS Standard, Digital circuits, 810 transistors" -> 20000
           [] car.s = "MOS Standard, Digital circuits, 2 gates" -> 1700
           [] car.s = "BICMOS, STAM, Static Read Access Memory, 8-bit" -> 8800
           [] car.s = "MOS Asic, Gate Arrays, 12 gates" -> 10000
           [] car.s = "Bipolar, Linear/Digital circuit low voltage, 15 transistors" -> 20000
           [] car.s = "BICMOS, linear/digital circuits, high voltage, 500 transistors" -> 20000
           [] car.s = "Bipolar circuits, linear/digital circuits, high voltage, 5000 transistors" -> 20000
           [] car.s = "BICMOS, linear/digital circuits, high voltage, 20 transistors" -> 20000
           [] car.s = "BICMOS, linear/digital circuits, low voltage, 20 transistors" -> 20000
           [] OTHER -> 0

\* Number of transistors
N(car) ==
    IF car.k # "str" THEN 0
    ELSE CASE car.s = "MOS Standard, Digital circuits, 20000 transistors" -> 20000
           [] car.s = "MOS Standard, Digital circuits, 810 transistors" -> 810
           [] car.s = "MOS Standard, Digital circuits, 2 gates" -> 8
           [] car.s = "BICMOS, STAM, Static Read Access Memory, 8-bit" -> 32
           [] car.s = "MOS Asic, Gate Arrays, 12 gates" -> 48
           [] car.s = "Bipolar, Linear/Digital circuit low voltage, 15 transistors" -> 15
           [] car.s = "BICMOS, linear/digital circuits, high voltage, 500 transistors" -> 500
           [] car.s = "Bipolar circuits, linear/digital circuits, high voltage, 5000 transistors" -> 5000
           [] car.s = "BICMOS, linear/digital circuits, high voltage, 20 transistors" -> 20
           [] car.s = "BICMOS, linear/digital circuits, low voltage, 20 transistors" -> 20
           [] OTHER -> 0

-----------------------------------------------------------------------------
(* Integrated circuits, IEC 7.3 *)

pi_n_i(n_i) ==
    IF n_i <= 8760 THEN PowM(n_i * 1000, 760)
    ELSE (17 * PowM(n_i * 1000, 600)) \div 10

bipolar_types ==
    { "Bipolar, Linear/Digital circuit low voltage, 15 transistors",
      "Bipolar circuits, linear/digital circuits, high voltage, 5000 transistors",
      "BICMOS, linear/digital circuits, high voltage, 500 transistors",
      "BICMOS, linear/digital circuits, high voltage, 20 transistors" }

pi_t_i(t_j, typ) ==
    IF typ.k = "str" /\ typ.s \in bipolar_types
    THEN FExp(Arrhenius(4640, 328, Degrees(t_j)))
    ELSE FExp(Arrhenius(3480, 328, Degrees(t_j)))

\* 0.06 * |als - alc| ** 1.68, in thousandths
pi_alpha(typs, typc) ==
    LET als == IF typs = Str("Epoxy") THEN 16000 ELSE 0
        alc == IF typc = Str("FR4") THEN 21500 ELSE 0
    IN  (60 * PowM(IF als >= alc THEN als - alc ELSE alc - als, 1680)) \div 1000

\* l_1(car) * N(car), in thousandths
l_1_times_N(car) == ((l_1(car) \div 100) * N(car)) \div 10000

\* (l_1 * N * exp(-0.35 * (a - 1998)) + l_2) * pi_t_i, in thousandths
lambda_die_i(a, car, t_j, typ) ==
    FMul(FAdd(FMul(K(l_1_times_N(car)), FExp(FLin(AsFloat(a), -350, -1998))),
              K(l_2(car))),
         pi_t_i(t_j, typ))

\* 2.75e-3 * pi_alpha * pi_n_i * dt ** 0.68 * l3, in thousandths; l3 is the
\* Lam3 cell in thousandths, and an empty cell makes the product nan
lambda_package_i(typs, typc, n_i, dt, car2, l3) ==
    FMul(K((Times275e5(CycleTerm(pi_n_i(n_i), dt)) * pi_alpha(typs, typc)) \div 1000),
         AsFloat(l3))

lambda_int(a, t_j, typs, typc, n_i, dt, car, car2, l3) ==
    FAdd(FAdd(lambda_die_i(a, car, t_j, car),
              lambda_package_i(typs, typc, n_i, dt, car2, l3)),
         K(40000))

-----------------------------------------------------------------------------
(* Diodes, IEC 8.2 and 8.3 *)

pi_n_d(n_i) ==
    IF n_i <= 8760 THEN PowM(n_i * 1000, 760)
    ELSE (17 * PowM(n_i * 1000, 600)) \div 10

pi_t_d(t_j) == FExp(Arrhenius(4640, 313, Degrees(t_j)))

\* Base failure rate of a diode, in thousandths; typ is the class name
l_0_dio(car, typ) ==
    LET pick(p, l) == IF typ = "Power diodes (8.3)" THEN p
                      ELSE IF typ = "Low power diode (8.2)" THEN l ELSE 0
    IN  IF car.k # "str" THEN 0
        ELSE CASE car.s = "signal" -> 70
               [] car.s = "recovery" -> pick(700, 100)
               [] car.s = "zener" -> pick(700, 400)
               [] car.s = "transient" -> pick(700, 2300)
               [] car.s = "trigger" -> pick(3000, 2000)
               [] car.s = "gallium" -> pick(1000, 300)
               [] car.s = "thyristors" -> pick(3000, 1000)
               [] OTHER -> 0

lambda_die_d(car, t_j, typ) ==
    FScale(pi_t_d(t_j),
           (IF car = Str("thyristors") THEN 10 ELSE 1) * l_0_dio(car, typ), 1000)

\* lb is the package value in thousandths
lambda_package_d(ni, dt, lb) ==
    (Times275e5(CycleTerm(pi_n_d(ni), dt)) * lb) \div 1000

lambda_overstress_d(pi_i, l_eos) == pi_i * l_eos * 1000

lambda_diode(car, t_j, n_i, dt, lb, pi_i, l_eos, typ) ==
    FAdd(FAdd(lambda_die_d(car, t_j, typ), K(lambda_package_d(n_i, dt, lb))),
         K(lambda_overstress_d(pi_i, l_eos)))

-----------------------------------------------------------------------------
(* Transistors, IEC 8.4 and 8.5 *)

pi_n_t(n_i) ==
    IF n_i <= 8760 THEN PowM(n_i * 1000, 760)
    ELSE (17 * PowM(n_i * 1000, 600)) \div 10

pi_t_t(t_j, typ1) ==
    IF typ1 = "Bipolar" THEN FExp(Arrhenius(4640, 373, Degrees(t_j)))
    ELSE IF typ1 = "MOS" THEN FExp(Arrhenius(3480, 373, Degrees(t_j)))
    ELSE K(0)

l_0_trans(typ2) == IF typ2 = "low" THEN 750 ELSE 2000

\* 0.22 * mat.exp(c * s) for a voltage ratio s and c in tenths
StressFactor(c, s) == FScale(FExp(FScale(s, c, 10)), 22, 100)

pi_s_t(typ1, mce, mice, mds, mids, mgs, migs) ==
    IF typ1 = "Bipolar"
    THEN StressFactor(17, FDiv(AsFloat(mce), AsFloat(mice)))
    ELSE IF typ1 = "MOS"
    THEN FMul(StressFactor(17, FDiv(AsFloat(mds), AsFloat(mids))),
              StressFactor(30, FDiv(AsFloat(mgs), AsFloat(migs))))
    ELSE K(0)

\* pi_s * l_0_trans(typ2) * s, with s computed before pi_s
DieProduct(s, pi_s, l_0) ==
    IF IsExc(s) THEN s ELSE FMul(FScale(pi_s, l_0, 1000), s)

lamba_die_trans(t_j, typ1, typ2, mce, mice, mds, mids, mgs, migs) ==
    DieProduct(pi_t_t(t_j, typ1), pi_s_t(typ1, mce, mice, mds, mids, mgs, migs), l_0_trans(typ2))

lambda_package_trans(n_i, dt, lb) ==
    (Times275e5(CycleTerm(pi_n_t(n_i), dt)) * lb) \div 1000

lambda_overstress_trans(p_I, l_eos) == p_I * l_eos * 1000

lambda_transistors(n_i, t_j, typ1, typ2, dt, lb, p_I, l_eos, mce, mice, mds, mids, mgs, migs) ==
    FAdd(FAdd(lamba_die_trans(t_j, typ1, typ2, mce, mice, mds, mids, mgs, migs),
              K(lambda_package_trans(n_i, dt, lb))),
         K(lambda_overstress_trans(p_I, l_eos)))

-----------------------------------------------------------------------------
(* Capacitors, IEC 10.3 and 10.4 *)

pi_t_c(ta, typ) ==
    IF typ = "dielectrique" THEN FExp(Arrhenius(1160, 303, Degrees(ta)))
    ELSE IF typ = "tantlum" THEN FExp(Arrhenius(1740, 303, Degrees(ta)))
    ELSE K(0)

pi_n_c(ni) == PowM(ni * 1000, 760)

\* s2 is pi_n_c(n_i) * (dt ** 0.68)
lambda_capacitors(n_i, ta, dt, typ) ==
    IF typ = "dielectrique"
    THEN FScale(FAdd(pi_t_c(ta, typ), K((33 * CycleTerm(pi_n_c(n_i), dt)) \div 10000)), 15, 100)
    ELSE IF typ = "tantlum"
    THEN FScale(FAdd(pi_t_c(ta, typ), K((38 * CycleTerm(pi_n_c(n_i), dt)) \div 10000)), 4, 10)
    ELSE FScale(pi_t_c(ta, typ), 0, 1)

-----------------------------------------------------------------------------
(* Resistors, IEC 11.1 *)

\* t_r = t_a + 85 * (op / rp), the quotient being computed before the sum;
\* mat.exp(1740 * (1/303 - 1/(273 + t_r)))
pi_tr(t_a, op, rp) ==
    FExp(Arrhenius(1740, 303,
                   FAdd(FScale(FDiv(AsFloat(op), AsFloat(rp)), 85, 1), Degrees(t_a))))

pi_nr(n_i) ==
    IF n_i <= 8760 THEN PowM(n_i * 1000, 760)
    ELSE (17 * PowM(n_i * 1000, 600)) \div 10

lambda_resistors(t_a, op, rp, dt, ni) ==
    FScale(FAdd(pi_tr(t_a, op, rp), K((14 * CycleTerm(pi_nr(ni), dt)) \div 10000)), 1, 10)

-----------------------------------------------------------------------------
(* Inductors and transformers, IEC 12 *)

pi_n_tr(n_i) ==
    IF n_i <= 8760 THEN PowM(n_i * 1000, 760)
    ELSE (17 * PowM(n_i * 1000, 600)) \div 10

\* ta + 8.2 * (po / sur), in thousandths of a degree.  po is the Power loss
\* cell in milliwatts, sur the radiating surface in units of 1e-4 dm2.
tr(ta, po, sur) ==
    FAdd(FScale(FDiv(FLin(AsFloat(po), 10, 0), K(sur)), 82, 10), Degrees(ta))

pi_t_tr(tr_temp) == FExp(Arrhenius(1740, 303, tr_temp))

\* Base failure rate in thousandths; rates.get(typ1, {}).get(typ2, 0)
l_0_i(typ1, typ2) ==
    IF typ2.k # "str" THEN 0
    ELSE IF typ1 = "inductor"
    THEN CASE typ2.s = "low fixed" -> 200
           [] typ2.s = "low variable" -> 400
           [] typ2.s = "Power Inductor" -> 600
           [] OTHER -> 0
    ELSE IF typ1 = "tranformer"
    THEN CASE typ2.s = "signal" -> 1500
           [] typ2.s = "power" -> 3000
           [] OTHER -> 0
    ELSE 0

lambda_inductors(typ1, typ2, n_i, dt, ta, po, sur) ==
    FScale(FAdd(pi_t_tr(tr(ta, po, sur)), K((7 * CycleTerm(pi_n_tr(n_i), dt)) \div 1000)),
           l_0_i(typ1, typ2), 1000)

-----------------------------------------------------------------------------
(* Primary batteries, IEC 19.1, and converters, IEC 19.6 *)

\* No class has a rate
NoRate(typ) == K(0)

lambda_primary(typ) ==
    IF typ = Str("Primary batteries (19.1)") THEN K(20000) ELSE K(0)

\* The regimes split below 8760 instead of at 8760
StrictBelow(n_i) ==
    IF n_i < 8760 THEN PowM(n_i * 1000, 760)
    ELSE (17 * PowM(n_i * 1000, 600)) \div 10

pi_n_co(n_i) ==
    IF n_i <= 8760 THEN PowM(n_i * 1000, 760)
    ELSE (17 * PowM(n_i * 1000, 600)) \div 10

lambda_converters(W, n_i, dt) ==
    K((IF W = "W<10" THEN 100 ELSE 130) * (1000 + ((3 * CycleTerm(pi_n_co(n_i), dt)) \div 1000)))

-----------------------------------------------------------------------------
(* Package values and the survival function *)

\* str(package_type).strip(): the name without its surrounding blanks
strip(s) ==
    CASE s = " TO-220, 3 pins " -> "TO-220, 3 pins"
      [] s = "SOT-23, 3 pins " -> "SOT-23, 3 pins"
      [] OTHER -> s

\* lambda_B of a package, in thousandths
l_b(package_type) ==
    IF isna(package_type) THEN 1000
    ELSE IF package_type.k # "str" THEN 1000
    ELSE CASE strip(package_type.s) = "D2PACK, 3 pins" -> 5700
           [] strip(package_type.s) = "SOT-23, 3 pins" -> 1000
           [] strip(package_type.s) = "SOD-123, 3 pins" -> 1000
           [] strip(package_type.s) = "TO-220, 3 pins" -> 5700
           [] strip(package_type.s) = "DPACK, 6 pins" -> 5100
           [] strip(package_type.s) = "TO-247, 3 pins" -> 6900
           [] OTHER -> 1000

\* lam * t for a rate in 1e-12/hour and a time in hours, in units of 1e-10
RateTimesTime(lam, t) == lam * (t \div 100) + ((lam * (t % 100)) \div 100)

\* mat.exp(-lambda_value * t).  A reliability is kept as Rel(x), standing
\* for exp(-x * 1e-10): Rel(0) is 1.0, and a larger x is a smaller
\* reliability.
Rel(x) == [k |-> "rel", x |-> x]
\* mat.exp(lambda_value * t), the sign of the exponent lost
ExpPos(lam, t) == Rel(0 - RateTimesTime(lam, t))
ExpNeg(lam, t) == Rel(RateTimesTime(lam, t))
reliability_from_lambda(lambda_value, t) == ExpNeg(lambda_value, t)

-----------------------------------------------------------------------------
(* Texts: a message is the sequence of the pieces an f-string joins *)

Lit(s) == Str(s)

RECURSIVE Join(_, _)
\* sep.join(names), as pieces
Join(names, sep) ==
    IF names = <<>> THEN <<>>
    ELSE IF Len(names) = 1 THEN <<Lit(names[1])>>
    ELSE <<Lit(names[1]), Lit(sep)>> \o Join(Tail(names), sep)

\* row.get(col, default)
Get(row, col, default) == IF col \in DOMAIN row THEN row[col] ELSE default

\* A list of the missing names that stops at the first one
MissingOfFirst(row, names) ==
    LET gone == SelectSeq(names, LAMBDA n : isna(IF n \in DOMAIN row THEN row[n] ELSE None))
    IN  IF gone = <<>> THEN <<>> ELSE <<gone[1]>>

\* [name for name, val in required.items() if pd.isna(val)]
RECURSIVE MissingOf(_, _)
MissingOf(row, names) ==
    IF names = <<>> THEN <<>>
    ELSE (IF isna(Get(row, names[1], None)) THEN <<names[1]>> ELSE <<>>)
         \o MissingOf(row, Tail(names))

Digits == {"0", "1", "2", "3", "4", "5", "6", "7", "8", "9"}
DigitVal(d) ==
    CASE d = "0" -> 0 [] d = "1" -> 1 [] d = "2" -> 2 [] d = "3" -> 3
      [] d = "4" -> 4 [] d = "5" -> 5 [] d = "6" -> 6 [] d = "7" -> 7
      [] d = "8" -> 8 [] d = "9" -> 9

RECURSIVE lstrip(_)
lstrip(c) == IF c # <<>> /\ Head(c) = " " THEN lstrip(Tail(c)) ELSE c
RECURSIVE rstrip(_)
rstrip(c) ==
    IF c # <<>> /\ c[Len(c)] = " " THEN rstrip(SubSeq(c, 1, Len(c) - 1)) ELSE c
\* str.strip() on a sequence of characters
strip_chars(c) == rstrip(lstrip(c))

RECURSIVE DigitsValue(_, _)
DigitsValue(c, acc) ==
    IF c = <<>> THEN acc ELSE DigitsValue(Tail(c), 10 * acc + DigitVal(Head(c)))

\* float(text) for a text of decimal digits; float raises ValueError on the
\* empty text and on a text holding a letter or an inner blank
float_of(c) ==
    IF c # <<>> /\ \A i \in 1..Len(c) : c[i] \in Digits
    THEN Num(DigitsValue(c, 0))
    ELSE Exc("ValueError")

\* surface_str.split('x'): the pieces between the occurrences of 'x'
RECURSIVE split_x(_, _)
split_x(c, cur) ==
    IF c = <<>> THEN <<cur>>
    ELSE IF Head(c) = "x" THEN <<cur>> \o split_x(Tail(c), <<>>)
    ELSE split_x(Tail(c), Append(cur, Head(c)))

-----------------------------------------------------------------------------
(* calculate_block_reliability: the dispatch of one row *)

\* 'MOS' in str(transistor_type), over the transistor types of the model
ContainsMOS(cell) == cell.k = "str" /\ cell.s \in {"MOS", "N-MOS", "Power MOSFET"}

\* 0 if pd.isna(row.get(col)) else row[col]
OrDefault(row, col, d) ==
    IF isna(Get(row, col, None)) THEN Num(d) ELSE row[col]

\* A body result: the model's value (or the exception it raised) and the
\* issues the branch appended to errors before that
Body(v, errs) == [v |-> v, errs |-> errs]

MissingMsg(reference, lead, missing) ==
    <<reference, Lit(lead)>> \o Join(missing, ", ")

TransistorBranch(row, reference, typ2, ni, dt, pi_i, leos) ==
    LET transistor_type == Get(row, "Transistor type", Str(""))
        typ1 == IF ContainsMOS(transistor_type) THEN "MOS" ELSE "Bipolar"
    IN  IF isna(Get(row, "Temperature_Junction", None))
        THEN Body(Num(0), <<MissingMsg(reference, ": Missing ", <<"Temperature_Junction">>)>>)
        ELSE Body(lambda_transistors(
                     ni, row["Temperature_Junction"], typ1, typ2, dt,
                     l_b(Get(row, "Table 18", None)), pi_i, leos,
                     OrDefault(row, "Max repetitive VCE", 0),
                     OrDefault(row, "Min specified VCE", 1),
                     OrDefault(row, "Max applied VDS", 0),
                     OrDefault(row, "Min specified VDS", 1),
                     OrDefault(row, "Max applied VGS", 0),
                     OrDefault(row, "Min specified VGS", 1)), <<>>)

CapacitorBranch(row, reference, typ, ni, dt) ==
    IF isna(Get(row, "Temperature_Ambiant", None))
    THEN Body(Num(0), <<MissingMsg(reference, ": Missing ", <<"Temperature_Ambiant">>)>>)
    ELSE Body(lambda_capacitors(ni, row["Temperature_Ambiant"], dt, typ), <<>>)

ResistorBranch(row, reference, ni, dt) ==
    LET missing == MissingOf(row, <<"Temperature_Ambiant", "Operating_Power", "Rated_Power">>)
    IN  IF missing # <<>>
        THEN Body(Num(0), <<MissingMsg(reference, ": Missing ", missing)>>)
        ELSE Body(lambda_resistors(row["Temperature_Ambiant"], row["Operating_Power"],
                                   row["Rated_Power"], dt, ni), <<>>)

\* Line 781 and the except of lines 785-787: the surface in units of
\* 1e-4 dm2 ((w / 100) * (h / 100) for w and h in millimetres), or the
\* fallback and an issue when float() raised
SurfaceFrom(w, h, cell, reference) ==
    IF IsExc(w) \/ IsExc(h)
    THEN [sur |-> 132,
          errs |-> <<<<reference, Lit(": Could not parse surface '"), cell, Lit("'")>>>>]
    ELSE [sur |-> w.n * h.n, errs |-> <<>>]

\* The fallback whatever the text, and nothing said
SilentFallback(parts, cell, reference) == [sur |-> 132, errs |-> <<>>]

\* Lines 776-784, on the pieces of surface_str.split('x')
SurfaceOfParts(parts, cell, reference) ==
    IF Len(parts) >= 2
    THEN SurfaceFrom(float_of(strip_chars(parts[1])), float_of(strip_chars(parts[2])),
                     cell, reference)
    ELSE [sur |-> 132,
          errs |-> <<<<reference, Lit(": Invalid surface format '"), cell, Lit("'")>>>>]

\* Lines 774-787: the radiating surface and the issues recorded while
\* parsing it; str() of a numeric cell holds no 'x'
ParseSurface(cell, reference) ==
    SurfaceOfParts(split_x(IF cell.k = "txt" THEN cell.c ELSE <<>>, <<>>), cell, reference)

InductorModel(row, ps, ni, dt) ==
    Body(lambda_inductors("inductor", Get(row, "Inductor type", Str("Power Inductor")),
                          ni, dt, row["Temperature_Ambiant"], row["Power loss"], ps.sur),
         ps.errs)

InductorBranch(row, reference, ni, dt) ==
    LET missing == MissingOf(row, <<"Temperature_Ambiant", "Power loss", "Radiating surface">>)
    IN  IF missing # <<>>
        THEN Body(Num(0), <<MissingMsg(reference, ": Missing ", missing)>>)
        ELSE InductorModel(row, ParseSurface(row["Radiating surface"], reference), ni, dt)

\* The diode branch with a diode_type outside the table of l_0_dio treated
\* as a missing field
DiodeBranchKnown(row, reference, component_class, ni, dt, pi_i, leos) ==
    IF MissingOf(row, <<"diode_type", "Temperature_Junction">>) # <<>>
    THEN Body(Num(0), <<MissingMsg(reference, ": Missing ",
                                   MissingOf(row, <<"diode_type", "Temperature_Junction">>))>>)
    ELSE IF l_0_dio(row["diode_type"], component_class.s) = 0
    THEN Body(Num(0), <<MissingMsg(reference, ": Unknown ", <<"diode_type">>)>>)
    ELSE Body(lambda_diode(row["diode_type"], row["Temperature_Junction"], ni, dt,
                           l_b(Get(row, "Table 18", None)), pi_i, leos,
                           component_class.s), <<>>)

DiodeBranch(row, reference, component_class, ni, dt, pi_i, leos) ==
    LET missing == MissingOf(row, <<"diode_type", "Temperature_Junction">>)
    IN  IF missing # <<>>
        THEN Body(Num(0), <<MissingMsg(reference, ": Missing ", missing)>>)
        ELSE Body(lambda_diode(row["diode_type"], row["Temperature_Junction"], ni, dt,
                               l_b(Get(row, "Table 18", None)), pi_i, leos,
                               component_class.s), <<>>)

ICBranch(row, reference, ni, dt) ==
    LET missing == MissingOf(row, <<"Construction Date", "Temperature_Junction", "alpha_s",
                                    "alpha_c", "Table 16", "Table 17a">>)
    IN  IF missing # <<>>
        THEN Body(Num(0), <<MissingMsg(reference, ": Missing required IC parameters: ", missing)>>)
        ELSE Body(lambda_int(row["Construction Date"], row["Temperature_Junction"],
                             row["alpha_s"], row["alpha_c"], ni, dt,
                             row["Table 16"], row["Table 17a"],
                             Get(row, "Lam3", Num(1300))), <<>>)

\* The if/elif chain inside the try block, lines 672-865
TryBody(row, reference, component_class, ni, dt, pi_i, leos, verbose) ==
    CASE component_class = Str("Low Power transistor (8.4)") ->
            TransistorBranch(row, reference, "low", ni, dt, pi_i, leos)
      [] component_class = Str("Power Transistor (8.5)") ->
            TransistorBranch(row, reference, "not low", ni, dt, pi_i, leos)
      [] component_class = Str("Ceramic Capacitor (10.3)") ->
            CapacitorBranch(row, reference, "dielectrique", ni, dt)
      [] component_class = Str("Tantlum Capacitor (10.4)") ->
            CapacitorBranch(row, reference, "tantlum", ni, dt)
      [] component_class = Str("Resistor (11.1)") ->
            ResistorBranch(row, reference, ni, dt)
      [] component_class = Str("Inductor (12)") ->
            InductorBranch(row, reference, ni, dt)
      [] component_class = Str("Converter <10W (19.6)") ->
            Body(lambda_converters("W<10", ni, dt), <<>>)
      [] component_class = Str("Converter >10W (19.6)") ->
            Body(lambda_converters("W>10", ni, dt), <<>>)
      [] component_class \in {Str("Low power diode (8.2)"), Str("Power diodes (8.3)")} ->
            DiodeBranch(row, reference, component_class, ni, dt, pi_i, leos)
      [] component_class = Str("Primary batteries (19.1)") ->
            Body(lambda_primary(component_class), <<>>)
      [] component_class = Str("Integrated Circuit (7)") ->
            ICBranch(row, reference, ni, dt)
      [] OTHER ->
            Body(Num(0),
                 IF verbose
                 THEN <<<<Lit("Unknown class '"), component_class, Lit("' for "), reference>>>>
                 ELSE <<>>)

\* Lines 867-872: the except clause, and the value appended to lambdas
Caught(b, reference, verbose) ==
    IF IsExc(b.v)
    THEN [lam |-> Num(0),
          errs |-> b.errs \o
                   (IF verbose
                    THEN <<<<Lit("Error calculating lambda for "), reference, Lit(": "),
                             Lit(b.v.t), Lit(": "), b.v>>>>
                    ELSE <<>>),
          outs |-> <<>>]
    ELSE [lam |-> b.v, errs |-> b.errs, outs |-> <<>>]

\* One turn of the loop of lines 658-872: the value appended to lambdas, the
\* issues appended to errors and the lines printed
DispatchRow(row, ni, dt, pi_i, leos, verbose) ==
    LET component_class == Get(row, "Class", Str(""))
        reference == Get(row, "Reference", Str("Unknown"))
    IN  IF isna(component_class) \/ component_class = Str("")
        THEN [lam |-> Num(0), errs |-> <<>>,
              outs |-> IF verbose
                       THEN <<<<Lit("  WARNING: "), reference,
                                Lit(" has no Class specified, skipping")>>>>
                       ELSE <<>>]
        ELSE Caught(TryBody(row, reference, component_class, ni, dt, pi_i, leos, verbose),
                    reference, verbose)

-----------------------------------------------------------------------------
(* The component tables the model draws its inputs from *)

Columns ==
    { "Reference", "Class", "Sheet", "Transistor type", "Temperature_Junction",
      "Table 18", "Max repetitive VCE", "Min specified VCE", "Max applied VDS",
      "Min specified VDS", "Max applied VGS", "Min specified VGS",
      "Temperature_Ambiant", "Operating_Power", "Rated_Power", "Power loss",
      "Radiating surface", "Inductor type", "diode_type", "Construction Date",
      "alpha_s", "alpha_c", "Table 16", "Table 17a", "Lam3" }

\* A row of empty cells but for the cells of f
RowOf(f) == [c \in Columns |-> IF c \in DOMAIN f THEN f[c] ELSE NaN]

ClassRow(class, f) == RowOf(("Class" :> Str(class)) @@ f)

Empty == [c \in {} |-> NaN]

Transistors ==
    LET lp == "Low Power transistor (8.4)"
        pw == "Power Transistor (8.5)"
        tj == "Temperature_Junction"
    IN  { ClassRow(lp, "Max repetitive VCE" :> Num(12)),
          ClassRow(lp, tj :> Num(100)),
          ClassRow(lp, (tj :> Num(100)) @@ ("Transistor type" :> Str("NPN"))),
          ClassRow(lp, (tj :> Num(100)) @@ ("Max repetitive VCE" :> Num(12))
                       @@ ("Min specified VCE" :> Num(0))),
          ClassRow(lp, (tj :> Num(100)) @@ ("Transistor type" :> Str("N-MOS"))
                       @@ ("Max applied VDS" :> Num(10)) @@ ("Min specified VDS" :> Num(20))
                       @@ ("Max applied VGS" :> Num(5)) @@ ("Min specified VGS" :> Num(20))),
          ClassRow(lp, (tj :> Num(100)) @@ ("Transistor type" :> Str("N-MOS"))
                       @@ ("Min specified VGS" :> Num(0))),
          ClassRow(pw, (tj :> Num(125)) @@ ("Transistor type" :> Str("Power MOSFET"))
                       @@ ("Table 18" :> Str(" TO-220, 3 pins "))) }

Capacitors ==
    LET ce == "Ceramic Capacitor (10.3)"
    IN  { ClassRow(ce, Empty),
          ClassRow(ce, "Temperature_Ambiant" :> Num(30)),
          ClassRow(ce, "Temperature_Ambiant" :> Str("hot")) }

Resistors ==
    LET r == "Resistor (11.1)"
        t == "Temperature_Ambiant"
        o == "Operating_Power"
        p == "Rated_Power"
    IN  { ClassRow(r, (t :> Num(30)) @@ (o :> Num(100)) @@ (p :> Num(250))),
          ClassRow(r, (t :> Num(30)) @@ (o :> Num(100)) @@ (p :> Num(0))),
          ClassRow(r, (t :> Num(30)) @@ (o :> Num(100))) }

\* The characters of a Radiating surface text
Surface(c) == "Radiating surface" :> Txt(c)

Inductors ==
    LET i == "Inductor (12)"
        t == "Temperature_Ambiant" :> Num(30)
        p == "Power loss" :> Num(66)
        k == "Inductor type" :> Str("Power Inductor")
    IN  { ClassRow(i, t @@ p @@ k @@ Surface(<<"1", "0", " ", "x", " ", "1", "2">>)),
          ClassRow(i, t @@ p @@ Surface(<<"1", "1", "x", "1", "2">>)),
          ClassRow(i, t @@ p @@ k @@ Surface(<<"1", "1", " ", "1", "2">>)),
          ClassRow(i, t @@ p @@ k @@ Surface(<<"a", " ", "x", " ", "1", "2">>)),
          ClassRow(i, t @@ p @@ k @@ Surface(<<"0", " ", "x", " ", "1", "2">>)),
          ClassRow(i, t @@ k) }

Converters ==
    { ClassRow("Converter <10W (19.6)", Empty),
      ClassRow("Converter >10W (19.6)", Empty) }

Diodes ==
    LET lo == "Low power diode (8.2)"
        pw == "Power diodes (8.3)"
        tj == "Temperature_Junction"
        d  == "diode_type"
    IN  { ClassRow(lo, (d :> Str("zener")) @@ (tj :> Num(40))),
          ClassRow(pw, (d :> Str("thyristors")) @@ (tj :> Num(85))
                       @@ ("Table 18" :> Str("DPACK, 6 pins"))),
          ClassRow(lo, (d :> Str("varicap")) @@ (tj :> Num(40))),
          ClassRow(pw, d :> Str("zener")) }

\* A battery with no other cell filled, and one whose other cells hold a
\* text for a temperature, a zero power, a surface that is no surface
Batteries ==
    { ClassRow("Primary batteries (19.1)", Empty),
      ClassRow("Primary batteries (19.1)",
               ("Temperature_Junction" :> Str("hot")) @@ ("Rated_Power" :> Num(0))
               @@ ("Lam3" :> Num(1300)) @@ Surface(<<"a">>)) }

ICFields ==
    ("Construction Date" :> Num(1998)) @@ ("Temperature_Junction" :> Num(55))
    @@ ("alpha_s" :> Str("Epoxy")) @@ ("alpha_c" :> Str("FR4"))
    @@ ("Table 16" :> Str("MOS Standard, Digital circuits, 2 gates"))
    @@ ("Table 17a" :> Str("SO, 8 pins")) @@ ("Lam3" :> Num(1300))

ICRequired ==
    { "Construction Date", "Temperature_Junction", "alpha_s", "alpha_c",
      "Table 16", "Table 17a" }

\* An integrated circuit with the cells of `gone` empty
ICWithout(gone) ==
    ClassRow("Integrated Circuit (7)",
             [c \in DOMAIN ICFields \ gone |-> ICFields[c]])

IntegratedCircuits ==
    { ICWithout({}), ICWithout({"Lam3"}), ICWithout(ICRequired),
      ICWithout({"alpha_s", "Table 16"}),
      ClassRow("Integrated Circuit (7)",
               ("alpha_s" :> Str("Ceramic")) @@ ("Table 16" :> Str("Analog ASIC"))
               @@ ICFields),
      ClassRow("Integrated Circuit (7)", ("Temperature_Junction" :> Num(-273)) @@ ICFields) }

Unclassified ==
    { RowOf(Empty), RowOf("Class" :> Str("")), ClassRow("Relay (16)", Empty) }

\* The kinds of component a row of the table can be
Catalogue ==
    Unclassified \cup Transistors \cup Capacitors \cup Resistors \cup Inductors
    \cup Converters \cup Diodes \cup Batteries \cup IntegratedCircuits

-----------------------------------------------------------------------------
(* calculate_block_reliability as a state machine *)

\* The largest number of rows of a component table
MaxRows == 2

VARIABLES
    df,          \* the component table passed by the caller, a sequence of rows
    sheet_name,  \* the block asked for
    ni, dt, t_mission, pi_i, leos,   \* the mission constants passed
    verbose,
    pc,          \* "start", "loop", "report" or "done"
    block_df,    \* the rows of the block
    idx,         \* the position of the next row of block_df
    lambdas,     \* the failure rates computed so far
    errors,      \* the data-quality issues recorded so far
    out,         \* the lines printed so far
    ret,         \* the value returned: None until the call returns
    R_list,      \* series_reliability: the list passed
    R,           \* series_reliability: the running product
    pos,         \* series_reliability: the position of the next element
    series_pc,   \* series_reliability: "idle", "start", "loop" or "done"
    result,      \* series_reliability: the value returned
    A, B,        \* two lists of reliabilities to combine
    fn,          \* the function that combines them
    combined,    \* its results on A, on [f(A)] + B and on A + B
    called,      \* the model or lookup function called on its own
    given,       \* the arguments it is given
    value,       \* what the call gives: a value, or the exception raised
    module,      \* the values NI, DT, T_MISSION, PI_I, LEOS of the module now
    group,       \* what a call of calculate_group_reliability returned
    menu,        \* main(): "idle", "start", "menu", "pause", "confirm", "proceed", "ended"
    menus,       \* main(): the number of times the menu has been shown
    how,         \* main(): how it ended
    last         \* main(): the last choice and what the analysis chosen did

block_vars == <<df, sheet_name, ni, dt, t_mission, pi_i, leos, verbose,
                pc, block_df, idx, lambdas, errors, out, ret>>

series_vars == <<R_list, R, pos, series_pc, result>>

combine_vars == <<A, B, fn, combined>>

models_vars == <<called, given, value>>

module_vars == <<module, group>>

main_vars == <<menu, menus, how, last>>

vars == <<block_vars, series_vars, combine_vars, models_vars, module_vars, main_vars>>

\* The variables a call of calculate_block_reliability leaves alone
outside_block == <<series_vars, combine_vars, models_vars, module_vars, main_vars>>

\* The variables the loop of series_reliability leaves alone
outside_series == <<block_vars, combine_vars, models_vars, module_vars, main_vars>>

\* The variables the calls that combine two lists leave alone
outside_combine == <<block_vars, series_vars, models_vars, module_vars, main_vars>>

\* The variables a call of one model or lookup function leaves alone
outside_models == <<block_vars, series_vars, combine_vars, module_vars, main_vars>>

\* The values the module has after import, lines 28-32
Imported == [NI |-> NI, DT |-> DT, T_MISSION |-> T_MISSION, PI_I |-> PI_I, LEOS |-> LEOS]

\* The module is as imported and no group has been asked for
ModuleIdle == module = Imported /\ group = None

\* main() is not running
MainIdle == menu = "idle" /\ menus = 0 /\ how = None /\ last = None

\* No function is called on its own
ModelsIdle == called = "none" /\ given = None /\ value = None

\* No lists are being combined
CombineIdle == A = <<>> /\ B = <<>> /\ fn = "none" /\ combined = None

\* No call of series_reliability is under way
SeriesIdle ==
    R_list = <<>> /\ R = None /\ pos = 0 /\ series_pc = "idle" /\ result = None

args == <<df, sheet_name, ni, dt, t_mission, pi_i, leos, verbose>>

Sheets == {"/Power/", "/Power/Boost/"}

\* Reference of the row at position i of the table
RefName(i) == CASE i = 1 -> "Q1" [] i = 2 -> "Q2" [] i = 3 -> "Q3" [] OTHER -> "Q4"

\* A row of the table: a component of the catalogue in the main block, or a
\* battery in its sub-block
PlacedKinds ==
    { ("Sheet" :> Str("/Power/")) @@ r : r \in Catalogue }
    \cup { ("Sheet" :> Str("/Power/Boost/")) @@ ClassRow("Primary batteries (19.1)", Empty) }

\* The mission constants passed: the defaults of the signature, and a
\* mission of one year with one cycle a day and larger swings
Missions ==
    { [ni |-> NI, dt |-> DT, t_mission |-> T_MISSION, pi_i |-> PI_I, leos |-> LEOS],
      [ni |-> 365, dt |-> 10, t_mission |-> 8760, pi_i |-> 1, leos |-> 20] }

Tables ==
    UNION { [1..n -> PlacedKinds] : n \in 0..MaxRows }

WithReferences(t) ==
    [i \in DOMAIN t |-> ("Reference" :> Str(RefName(i))) @@ t[i]]

Init ==
    /\ \E t \in Tables : df = WithReferences(t)
    /\ sheet_name \in Sheets
    /\ \E m \in Missions :
          /\ ni = m.ni /\ dt = m.dt /\ t_mission = m.t_mission
          /\ pi_i = m.pi_i /\ leos = m.leos
    /\ verbose \in BOOLEAN
    /\ pc = "start"
    /\ block_df = <<>> /\ idx = 1
    /\ lambdas = <<>> /\ errors = <<>> /\ out = <<>>
    /\ ret = None
    /\ SeriesIdle /\ CombineIdle /\ ModelsIdle /\ ModuleIdle /\ MainIdle

\* The rows whose Sheet starts with the path: those of the block and of the
\* blocks below it
FilterPrefix(t, name) ==
    SelectSeq(t, LAMBDA r : \/ r["Sheet"] = Str(name)
                            \/ name = "/Power/" /\ r["Sheet"] = Str("/Power/Boost/"))

\* df[df['Sheet'] == sheet_name]
RECURSIVE FilterSheet(_, _)
FilterSheet(t, name) ==
    IF t = <<>> THEN <<>>
    ELSE (IF Head(t)["Sheet"] = Str(name) THEN <<Head(t)>> ELSE <<>>)
         \o FilterSheet(Tail(t), name)

Returned(frame, total, rel) == [df |-> frame, lambda_total |-> total, R_block |-> rel]

\* Lines 642-656: select the block; an empty block returns at once
Enter ==
    /\ pc = "start"
    /\ LET b == FilterSheet(df, sheet_name)
       IN  /\ block_df' = b
           /\ IF b = <<>>
              THEN /\ out' = IF verbose
                             THEN <<<<Lit("WARNING: No components found for sheet '"),
                                      Str(sheet_name), Lit("'")>>>>
                             ELSE <<>>
                   /\ ret' = Returned(<<>>, 0, Rel(0))
                   /\ pc' = "done"
              ELSE /\ out' = IF verbose
                             THEN << <<Lit("Processing block: "), Str(sheet_name)>>,
                                     <<Lit("Components found: "), Num(Len(b))>> >>
                             ELSE <<>>
                   /\ ret' = ret
                   /\ pc' = "loop"
    /\ idx' = 1 /\ lambdas' = <<>> /\ errors' = <<>>
    /\ UNCHANGED <<args, outside_block>>

\* lambdas.append(lam) left out for a rate that is not above zero
RecordValid(d) ==
    /\ lambdas' = IF IsNum(d.lam) /\ d.lam.n > 0 THEN Append(lambdas, d.lam) ELSE lambdas
    /\ errors' = errors \o d.errs
    /\ out' = out \o d.outs

\* lambdas.append(lam), with the issues and the lines of the turn
Record(d) ==
    /\ lambdas' = Append(lambdas, d.lam)
    /\ errors' = errors \o d.errs
    /\ out' = out \o d.outs

\* One turn of the loop that takes the cycles, the swing and the overstress
\* values from the module instead of its arguments
IterateAmbient ==
    /\ pc = "loop"
    /\ idx <= Len(block_df)
    /\ Record(DispatchRow(block_df[idx], module.NI, module.DT, module.PI_I, module.LEOS,
                          verbose))
    /\ idx' = idx + 1
    /\ UNCHANGED <<args, pc, block_df, ret, outside_block>>

\* Lines 658-872: one turn of the loop over the rows of the block
Iterate ==
    /\ pc = "loop"
    /\ idx <= Len(block_df)
    /\ Record(DispatchRow(block_df[idx], ni, dt, pi_i, leos, verbose))
    /\ idx' = idx + 1
    /\ UNCHANGED <<args, pc, block_df, ret, outside_block>>

\* lam > 0 and lam == 0.0 on a float: both are false of nan
Positive(lam) == IsNum(lam) /\ lam.n > 0
IsZero(lam) == IsNum(lam) /\ lam.n = 0

RECURSIVE SumRates(_)
\* sum() of a list of rates
SumRates(ls) == IF ls = <<>> THEN 0 ELSE Head(ls).n + SumRates(Tail(ls))

\* [lam for lam in lambdas if lam > 0]
valid_lambdas(ls) == SelectSeq(ls, Positive)

\* Lines 893 and 910: the table returned, one row per row of the block
ResultFrame(b, ls, t) ==
    [i \in 1..Len(b) |->
        [Reference |-> b[i]["Reference"], Class |-> b[i]["Class"],
         Failure_rate |-> ls[i],
         Reliability |-> IF Positive(ls[i]) THEN ExpNeg(ls[i].n, t) ELSE NaN]]

\* Every issue shown, however many there are
IssueLinesAll(errs, ls) == <<<<Lit("Data Quality Issues:")>>>> \o errs

\* Lines 875-887: the issues shown, at most ten of them
IssueLines(errs, ls) ==
    LET shown == SubSeq(errs, 1, IF Len(errs) < 10 THEN Len(errs) ELSE 10)
        zero_count == Len(SelectSeq(ls, IsZero))
    IN  <<<<Lit("Data Quality Issues:")>>>> \o shown
        \o (IF Len(errs) > 10
            THEN <<<<Lit("... and "), Num(Len(errs) - 10), Lit(" more")>>>>
            ELSE <<>>)
        \o (IF zero_count > 0
            THEN <<<<Lit("WARNING: "), Num(zero_count), Lit("/"), Num(Len(ls)),
                     Lit(" components have lambda=0 due to missing data")>>>>
            ELSE <<>>)

\* Lines 901-907
ResultLines(ls, total, rel) ==
    << <<Lit("Block Results:")>>,
       <<Lit("Valid components: "), Num(Len(valid_lambdas(ls))), Lit("/"), Num(Len(ls))>>,
       <<Lit("Block lambda: "), Num(total), Lit(" failures/hour")>>,
       <<Lit("Block reliability: "), rel>> >>

\* The end of the call with the two columns written into the table of the
\* caller instead of a copy
FinishInPlace ==
    /\ pc = "loop"
    /\ idx > Len(block_df)
    /\ df' = [i \in DOMAIN df |->
                ("Failure_rate" :> NaN) @@ ("Reliability" :> NaN) @@ df[i]]
    /\ ret' = Returned(ResultFrame(block_df, lambdas, t_mission),
                       SumRates(valid_lambdas(lambdas)),
                       ExpNeg(SumRates(valid_lambdas(lambdas)), t_mission))
    /\ pc' = "done"
    /\ UNCHANGED <<sheet_name, ni, dt, t_mission, pi_i, leos, verbose, block_df, idx,
                   lambdas, errors, out, outside_block>>

\* Lines 874-912: after the last row, report, total and return
Finish ==
    /\ pc = "loop"
    /\ idx > Len(block_df)
    /\ LET lambda_total == SumRates(valid_lambdas(lambdas))
           R_block == ExpNeg(lambda_total, t_mission)
       IN  /\ out' = out
                     \o (IF errors # <<>> /\ verbose THEN IssueLines(errors, lambdas) ELSE <<>>)
                     \o (IF verbose THEN ResultLines(lambdas, lambda_total, R_block) ELSE <<>>)
           /\ ret' = Returned(ResultFrame(block_df, lambdas, t_mission), lambda_total, R_block)
    /\ pc' = "done"
    /\ UNCHANGED <<args, block_df, idx, lambdas, errors, outside_block>>

Next == Enter \/ Iterate \/ Finish

Spec == Init /\ [][Next]_vars

-----------------------------------------------------------------------------
(* Calls made while the values of the module are assigned to *)

\* A whole call of calculate_block_reliability on the rows b of the block,
\* given the rates ls of its rows: what lines 645-648 and 889-912 return
BlockOf(b, ls, t_m) ==
    IF b = <<>> THEN Returned(<<>>, 0, Rel(0))
    ELSE Returned(ResultFrame(b, ls, t_m), SumRates(valid_lambdas(ls)),
                  ExpNeg(SumRates(valid_lambdas(ls)), t_m))

\* Lines 658-872 over the rows b
RatesOf(b, n_i, d_t, p_i, l_eos, v) ==
    [i \in 1..Len(b) |-> DispatchRow(b[i], n_i, d_t, p_i, l_eos, v).lam]

calculate_block_reliability(t, name, n_i, d_t, t_m, p_i, l_eos, v) ==
    BlockOf(FilterSheet(t, name), RatesOf(FilterSheet(t, name), n_i, d_t, p_i, l_eos, v), t_m)

\* The group made of its last block alone
GroupOfLast(blocks) ==
    [R_list |-> [i \in DOMAIN blocks |-> blocks[i].R_block],
     lambda_list |-> [i \in DOMAIN blocks |-> blocks[i].lambda_total],
     R_group |-> [k |-> "product",
                  of |-> IF blocks = <<>> THEN <<>> ELSE <<blocks[Len(blocks)].R_block>>],
     lambda_group |-> IF blocks = <<>> THEN 0 ELSE blocks[Len(blocks)].lambda_total]

\* Lines 936-962: the lists of the reliabilities and of the totals of the
\* blocks, the product of the first (kept as the product of the list, in its
\* order) and the sum of the second; the lines printed are left out
GroupOf(blocks) ==
    [R_list |-> [i \in DOMAIN blocks |-> blocks[i].R_block],
     lambda_list |-> [i \in DOMAIN blocks |-> blocks[i].lambda_total],
     R_group |-> [k |-> "product", of |-> [i \in DOMAIN blocks |-> blocks[i].R_block]],
     lambda_group |-> SumRates([i \in DOMAIN blocks |-> Num(blocks[i].lambda_total)])]

SheetLists ==
    { <<>>, <<"/Power/">>, <<"/Power/", "/Power/Boost/">>, <<"/Power/Boost/", "/Power/">> }

\* calculate_group_reliability(df, sheet_list, ni, dt, t_mission, pi_i, leos,
\* verbose), with the list it was called for
calculate_group_reliability ==
    /\ pc = "start" /\ group = None
    /\ \E sheet_list \in SheetLists :
          group' = [sheet_list |-> sheet_list,
                    ret |-> GroupOf([i \in 1..Len(sheet_list) |->
                               calculate_block_reliability(df, sheet_list[i], ni, dt, t_mission,
                                                           pi_i, leos, verbose)])]
    /\ UNCHANGED <<module, block_vars, series_vars, combine_vars, models_vars, main_vars>>

\* The values another script has given the names of the module
Rebound == [NI |-> 365, DT |-> 10, T_MISSION |-> 8760, PI_I |-> 1, LEOS |-> 20]

\* Assignments to NI, DT, T_MISSION, PI_I and LEOS of the module, before a call
Rebind ==
    /\ pc = "start" /\ module = Imported
    /\ module' = Rebound
    /\ UNCHANGED <<group, block_vars, series_vars, combine_vars, models_vars, main_vars>>

\* The components of the sub-block: a battery or a converter
BoostKinds ==
    { ("Sheet" :> Str("/Power/Boost/")) @@ ClassRow("Primary batteries (19.1)", Empty),
      ("Sheet" :> Str("/Power/Boost/")) @@ ClassRow("Converter >10W (19.6)", Empty) }

\* The tables of no row, of one row, and of a row in each of the two blocks
SmallTables ==
    {<<>>} \cup {<<r>> : r \in PlacedKinds}
    \cup {<<r, b>> : r \in {q \in PlacedKinds : q["Sheet"] = Str("/Power/")},
                     b \in BoostKinds}

\* A mission of fifteen years with the default cycles
LongMission == [ni |-> NI, dt |-> DT, t_mission |-> 131400, pi_i |-> PI_I, leos |-> LEOS]

ModuleInit ==
    /\ \E t \in SmallTables : df = WithReferences(t)
    /\ sheet_name \in Sheets
    /\ \E m \in Missions \cup {LongMission} :
          /\ ni = m.ni /\ dt = m.dt /\ t_mission = m.t_mission
          /\ pi_i = m.pi_i /\ leos = m.leos
    /\ verbose \in BOOLEAN
    /\ pc = "start"
    /\ block_df = <<>> /\ idx = 1
    /\ lambdas = <<>> /\ errors = <<>> /\ out = <<>>
    /\ ret = None
    /\ SeriesIdle /\ CombineIdle /\ ModelsIdle /\ ModuleIdle /\ MainIdle

ModuleNext == Next \/ Rebind \/ calculate_group_reliability

SpecModule == ModuleInit /\ [][ModuleNext]_vars

-----------------------------------------------------------------------------
(* What calculate_block_reliability is said to do *)

Done == pc = "done"

\* The positions of the rows of the block the loop has dealt with
Handled == 1..Len(lambdas)

RowClass(i) == block_df[i]["Class"]
RowRef(i) == block_df[i]["Reference"]

TransistorClasses == {Str("Low Power transistor (8.4)"), Str("Power Transistor (8.5)")}
DiodeClasses == {Str("Low power diode (8.2)"), Str("Power diodes (8.3)")}
CapacitorClasses == {Str("Ceramic Capacitor (10.3)"), Str("Tantlum Capacitor (10.4)")}

KnownClasses ==
    TransistorClasses \cup DiodeClasses \cup CapacitorClasses
    \cup { Str("Resistor (11.1)"), Str("Inductor (12)"), Str("Converter <10W (19.6)"),
           Str("Converter >10W (19.6)"), Str("Primary batteries (19.1)"),
           Str("Integrated Circuit (7)") }

\* The fields the specification requires of a component of each class
RequiredOf(class) ==
    CASE class \in TransistorClasses -> {"Temperature_Junction"}
      [] class \in DiodeClasses -> {"diode_type", "Temperature_Junction"}
      [] class \in CapacitorClasses -> {"Temperature_Ambiant"}
      [] class = Str("Resistor (11.1)") ->
            {"Temperature_Ambiant", "Operating_Power", "Rated_Power"}
      [] class = Str("Inductor (12)") ->
            {"Temperature_Ambiant", "Power loss", "Radiating surface"}
      [] class = Str("Integrated Circuit (7)") ->
            {"Construction Date", "Temperature_Junction", "alpha_s", "alpha_c",
             "Table 16", "Table 17a"}
      [] OTHER -> {}

MissingFields(i) == {f \in RequiredOf(RowClass(i)) : isna(block_df[i][f])}

\* The text msg holds the piece p
Mentions(msg, p) == \E k \in DOMAIN msg : msg[k] = p

\* The component at position i is left out of the total
Excluded(i) == ~Positive(lambdas[i])

\* What the component at position i adds to the total
Contribution(lam) == IF Positive(lam) THEN lam.n ELSE 0

RECURSIVE SumOver(_, _)
\* The sum of rate[i] over the positions i of S
SumOver(rate, S) ==
    IF S = {} THEN 0
    ELSE LET i == CHOOSE j \in S : TRUE
         IN  rate[i] + SumOver(rate, S \ {i})

\* C1: a component of a known class with a required field missing gets the
\* rate 0, is not added to the total of the block, and an issue is recorded
\* for it that holds its reference and the name of every missing field,
\* whatever verbose is.
C1_MissingFieldExcluded ==
    /\ \A i \in Handled :
          MissingFields(i) # {} =>
             /\ lambdas[i] = Num(0)
             /\ \E k \in DOMAIN errors :
                   /\ Mentions(errors[k], RowRef(i))
                   /\ \A f \in MissingFields(i) : Mentions(errors[k], Lit(f))
    /\ (Done /\ block_df # <<>>) =>
          /\ \A i \in Handled :
                MissingFields(i) # {} => ret.df[i].Failure_rate = Num(0)
          /\ ret.lambda_total =
                SumOver([i \in Handled |-> Contribution(lambdas[i])],
                        {i \in Handled : MissingFields(i) = {}})

\* A quiet call has returned a total made of the one complete component of a
\* block whose other component misses several required fields
C1_Witness ==
    /\ Done /\ ~verbose /\ Len(block_df) = 2
    /\ \E i, j \in Handled :
          /\ Cardinality(MissingFields(i)) >= 2
          /\ Positive(lambdas[j])
          /\ ret.lambda_total = lambdas[j].n

\* The lines printed and the issues recorded
Recorded == {errors[k] : k \in DOMAIN errors} \cup {out[k] : k \in DOMAIN out}

\* C2: every component the loop has dealt with either adds its rate to the
\* total or is left out with a reason recorded for it, whatever the cause and
\* whatever verbose is.
C2_EveryExclusionExplained ==
    \A i \in Handled :
       Excluded(i) => \E line \in Recorded : Mentions(line, RowRef(i))

\* The model called for the row at position i raised
Raised(i) ==
    /\ ~isna(RowClass(i)) /\ RowClass(i) # Str("")
    /\ IsExc(TryBody(block_df[i], RowRef(i), RowClass(i), ni, dt, pi_i, leos, verbose).v)

\* C3: a component whose model raises gets the rate 0 and the error is
\* captured in an issue recorded for it.
C3_ExceptionReasonRecorded ==
    \A i \in Handled :
       Raised(i) =>
          /\ lambdas[i] = Num(0)
          /\ \E k \in DOMAIN errors :
                /\ Mentions(errors[k], RowRef(i))
                /\ Mentions(errors[k],
                            TryBody(block_df[i], RowRef(i), RowClass(i),
                                    ni, dt, pi_i, leos, verbose).v)

\* The positions of the rows of the table whose Sheet is the path asked for
InSheet == {i \in DOMAIN df : df[i]["Sheet"] = Str(sheet_name)}

\* C4: the total returned is the sum of the rates of the components that are
\* not left out and whose Sheet is exactly the path asked for, and the
\* reliability returned is exp(-total * t) for the mission time passed.
C4_TotalIsSumOfSheet ==
    Done =>
       /\ ret.lambda_total =
             SumOver([i \in DOMAIN df |->
                        Contribution(DispatchRow(df[i], ni, dt, pi_i, leos, verbose).lam)],
                     InSheet)
       /\ ret.R_block = Rel(RateTimesTime(ret.lambda_total, t_mission))

\* A call for "/Power/" with a one-year mission has returned the rate of the
\* one component of that sheet, the table holding a battery in "/Power/Boost/"
C4_Witness ==
    /\ Done /\ sheet_name = "/Power/" /\ t_mission = 8760 /\ Len(df) = 2
    /\ df[1]["Sheet"] = Str("/Power/") /\ df[2]["Sheet"] = Str("/Power/Boost/")
    /\ Positive(DispatchRow(df[2], ni, dt, pi_i, leos, verbose).lam)
    /\ Positive(lambdas[1]) /\ ret.lambda_total = lambdas[1].n
    /\ ret.R_block = Rel(RateTimesTime(lambdas[1].n, 8760))

\* The call tells its caller that no component was valid
DegenerateReported ==
    \/ "degenerate" \in DOMAIN ret
    \/ \E k \in DOMAIN out :
          \/ out[k][1] = Lit("WARNING: No components found for sheet '")
          \/ out[k][1] = Lit("Valid components: ") /\ out[k][2] = Num(0)

\* C5: a block with no valid component (empty, or every component left out)
\* returns total 0 and reliability 1 and flags the result as degenerate,
\* whatever verbose is.
C5_DegenerateFlagged ==
    (Done /\ valid_lambdas(lambdas) = <<>>) =>
       /\ ret.lambda_total = 0
       /\ ret.R_block = Rel(0)
       /\ DegenerateReported

\* C6: a component whose Class is none of the known classes gets the rate 0
\* and an issue naming the class and the reference is recorded.
C6_UnknownClassReasonRecorded ==
    \A i \in Handled :
       (~isna(RowClass(i)) /\ RowClass(i) # Str("") /\ RowClass(i) \notin KnownClasses) =>
          /\ lambdas[i] = Num(0)
          /\ \E k \in DOMAIN errors :
                Mentions(errors[k], RowClass(i)) /\ Mentions(errors[k], RowRef(i))

\* C7: a resistor whose Rated_Power is 0 is left out and reported as a data
\* error.
C7_ZeroRatedPowerReported ==
    \A i \in Handled :
       (RowClass(i) = Str("Resistor (11.1)") /\ block_df[i]["Rated_Power"] = Num(0)
        /\ MissingFields(i) = {}) =>
          /\ lambdas[i] = Num(0)
          /\ \E k \in DOMAIN errors : Mentions(errors[k], RowRef(i))

\* The minimum voltages the stress factor divides by, for the row at i
Denominators(i) ==
    IF ContainsMOS(Get(block_df[i], "Transistor type", Str("")))
    THEN {OrDefault(block_df[i], "Min specified VDS", 1),
          OrDefault(block_df[i], "Min specified VGS", 1)}
    ELSE {OrDefault(block_df[i], "Min specified VCE", 1)}

\* C8: for a transistor with a junction temperature the stress factor never
\* divides by zero, whatever the voltage cells hold.
C8_NoZeroDenominator ==
    \A i \in Handled :
       (RowClass(i) \in TransistorClasses /\ MissingFields(i) = {}) =>
          /\ Num(0) \notin Denominators(i)
          /\ TryBody(block_df[i], RowRef(i), RowClass(i), ni, dt, pi_i, leos, verbose).v
                # Exc("ZeroDivisionError")

\* The rates a component's rate is raised by
Raises == {1, 377, 525800}

\* The rates of the block with the rate at position i raised by d
RaisedAt(i, d) == [lambdas EXCEPT ![i] = Num(Contribution(lambdas[i]) + d)]

\* C9: with the other components unchanged, a larger rate for one component
\* (a component left out that becomes included is one case) gives a total that
\* is not smaller and a reliability that is not larger.
C9_Monotone ==
    (Done /\ block_df # <<>>) =>
       \A i \in Handled : \A d \in Raises :
          /\ SumRates(valid_lambdas(RaisedAt(i, d))) >= ret.lambda_total
          /\ ExpNeg(SumRates(valid_lambdas(RaisedAt(i, d))), t_mission).x >= ret.R_block.x

\* A block of one component left out and one included has returned: including
\* the first raises the total and lowers the reliability
C9_Witness ==
    /\ Done /\ Len(block_df) = 2
    /\ \E i, j \in Handled :
          /\ Excluded(i) /\ Positive(lambdas[j])
          /\ SumRates(valid_lambdas(RaisedAt(i, 377))) = ret.lambda_total + 377
          /\ ExpNeg(SumRates(valid_lambdas(RaisedAt(i, 377))), t_mission).x > ret.R_block.x

-----------------------------------------------------------------------------
(* series_reliability on binary floating-point numbers *)

\* The bits of a significand: a float is m * 2^e with m of exactly
\* Precision bits, or zero; a product is rounded to the nearest such number,
\* ties to the even significand, as IEEE 754 multiplication is
Precision == 4

\* The longest list passed to series_reliability
MaxLen == 3

RECURSIVE Pow2(_)
Pow2(n) == IF n = 0 THEN 1 ELSE 2 * Pow2(n - 1)

RECURSIVE Bits(_)
\* The number of bits of m >= 1
Bits(m) == IF m < 2 THEN 1 ELSE 1 + Bits(m \div 2)

Float(m, e) == [k |-> "float", m |-> m, e |-> e]
Zero == Float(0, 0)
One == Float(Pow2(Precision - 1), 1 - Precision)

\* q * 2^e with q of at most Precision + 1 bits after rounding up
Carry(q, e) ==
    IF q = Pow2(Precision) THEN Float(Pow2(Precision - 1), e + 1) ELSE Float(q, e)

\* m * 2^e with the s low bits of m rounded away, ties to even
RoundAway(m, e, s) ==
    Carry((m \div Pow2(s))
          + (IF \/ 2 * (m % Pow2(s)) > Pow2(s)
                \/ 2 * (m % Pow2(s)) = Pow2(s) /\ (m \div Pow2(s)) % 2 = 1
             THEN 1 ELSE 0),
          e + s)

\* The float nearest to m * 2^e
Nearest(m, e) ==
    IF m = 0 THEN Zero
    ELSE IF Bits(m) <= Precision
    THEN Float(m * Pow2(Precision - Bits(m)), e - (Precision - Bits(m)))
    ELSE RoundAway(m, e, Bits(m) - Precision)

\* a * b on floats
FloatMul(a, b) == Nearest(a.m * b.m, a.e + b.e)

\* R = r: the running product replaced by the element
Overwrite(acc, r) == r

\* R *= r
Accumulate(acc, r) == FloatMul(acc, r)

\* The reliabilities passed: 0.0, 1.0 and the floats of [0.5, 1)
Reliabilities ==
    {Zero, One} \cup {Float(m, 0 - Precision) : m \in Pow2(Precision - 1)..(Pow2(Precision) - 1)}

\* No call of calculate_block_reliability is under way
BlockIdle ==
    /\ df = <<>> /\ sheet_name = "/Power/"
    /\ ni = NI /\ dt = DT /\ pi_i = PI_I /\ leos = LEOS /\ t_mission = T_MISSION
    /\ verbose = FALSE /\ pc = "idle"
    /\ block_df = <<>> /\ idx = 1
    /\ lambdas = <<>> /\ errors = <<>> /\ out = <<>>
    /\ ret = None

SeriesInit ==
    /\ R_list \in UNION { [1..n -> Reliabilities] : n \in 0..MaxLen }
    /\ R = None /\ pos = 0 /\ series_pc = "start" /\ result = None
    /\ BlockIdle /\ CombineIdle /\ ModelsIdle /\ ModuleIdle /\ MainIdle

\* R = 1.0
SeriesStart ==
    /\ series_pc = "start"
    /\ R' = One /\ pos' = 1 /\ series_pc' = "loop"
    /\ UNCHANGED <<R_list, result, outside_series>>

\* for r in R_list: R *= r
SeriesStep ==
    /\ series_pc = "loop" /\ pos <= Len(R_list)
    /\ R' = Accumulate(R, R_list[pos])
    /\ pos' = pos + 1
    /\ UNCHANGED <<R_list, series_pc, result, outside_series>>

\* return R
SeriesReturn ==
    /\ series_pc = "loop" /\ pos > Len(R_list)
    /\ result' = R /\ series_pc' = "done"
    /\ UNCHANGED <<R_list, R, pos, outside_series>>

SeriesNext == SeriesStart \/ SeriesStep \/ SeriesReturn

SpecSeries == SeriesInit /\ [][SeriesNext]_vars

RECURSIVE Product(_)
\* The product of the elements of l, taken from the first to the last
Product(l) ==
    IF l = <<>> THEN One
    ELSE FloatMul(Product(SubSeq(l, 1, Len(l) - 1)), l[Len(l)])

\* The lists that hold the elements of l in another order
Reorderings(l) ==
    { [i \in DOMAIN l |-> l[p[i]]] :
        p \in { q \in [DOMAIN l -> DOMAIN l] : \A i, j \in DOMAIN l : q[i] = q[j] => i = j } }

\* C10 as the specification states it: series_reliability returns 1 for the
\* empty list, R for [R], the product of the elements for any list, and the
\* same result for every permutation of the list.
C10_AnyOrder ==
    series_pc = "done" =>
       /\ R_list = <<>> => result = One
       /\ Len(R_list) = 1 => result = R_list[1]
       /\ result = Product(R_list)
       /\ \A l \in Reorderings(R_list) : Product(l) = result

\* C10 as the code has it: series_reliability returns 1 for the empty list,
\* R for [R], and the product of the elements taken in the order of the list;
\* the result is the same for both orders of a list of two elements (a longer
\* list in another order may give a result that differs by rounding).
C10_ProductInOrder ==
    series_pc = "done" =>
       /\ R_list = <<>> => result = One
       /\ Len(R_list) = 1 => result = R_list[1]
       /\ result = Product(R_list)
       /\ Len(R_list) = 2 => \A l \in Reorderings(R_list) : Product(l) = result

\* The product of two different reliabilities has been returned: it is
\* neither of them, and the other order gives it too
C10_Witness ==
    /\ series_pc = "done" /\ Len(R_list) = 2
    /\ R_list[1] # R_list[2]
    /\ result \notin {R_list[1], R_list[2], Zero}
    /\ result = Product(<<R_list[2], R_list[1]>>)

-----------------------------------------------------------------------------
(* series_reliability and parallel_reliability as functions of their list *)

\* The smaller of two exponents
MinExp(a, b) == IF a.e < b.e THEN a.e ELSE b.e

\* The significand of a at the exponent e <= a.e
Scaled(a, e) == a.m * Pow2(a.e - e)

\* a - b on floats, for a >= b >= 0: the exact difference, rounded
FloatSub(a, b) == Nearest(Scaled(a, MinExp(a, b)) - Scaled(b, MinExp(a, b)), MinExp(a, b))

\* a <= b on floats
FloatLeq(a, b) == Scaled(a, MinExp(a, b)) <= Scaled(b, MinExp(a, b))

\* r itself: the complement 1 - r forgotten
NoComplement(r) == r

\* (1 - r)
Complement(r) == FloatSub(One, r)

RECURSIVE SeriesFrom(_, _)
\* for r in R_list: R *= r, from the running product acc
SeriesFrom(acc, l) ==
    IF l = <<>> THEN acc ELSE SeriesFrom(Accumulate(acc, Head(l)), Tail(l))

RECURSIVE FailFrom(_, _)
\* for r in R_list: P_fail *= (1 - r), from the running product acc
FailFrom(acc, l) ==
    IF l = <<>> THEN acc ELSE FailFrom(FloatMul(acc, Complement(Head(l))), Tail(l))

series_reliability(l) == SeriesFrom(One, l)

\* return P_fail: the final 1.0 - P_fail forgotten
AllFail(l) == FailFrom(One, l)

parallel_reliability(l) == FloatSub(One, FailFrom(One, l))

\* The significands of the reliabilities combined: the least, the next and
\* the greatest
Significands == {Pow2(Precision - 1), Pow2(Precision - 1) + 1, Pow2(Precision) - 1}

\* The reliabilities combined: 0.0, 1.0, floats of [0.5, 1) and of [1/16, 1/8)
Probabilities ==
    {Zero, One} \cup {Float(m, 0 - Precision - d) : m \in Significands, d \in {0, 3}}

\* The lists of at most n reliabilities
ListsUpTo(n) == UNION { [1..k -> Probabilities] : k \in 0..n }

CombineInit ==
    /\ A \in ListsUpTo(MaxLen)
    /\ B \in ListsUpTo(MaxLen - Len(A))
    /\ fn = "none" /\ combined = None
    /\ BlockIdle /\ SeriesIdle /\ ModelsIdle /\ ModuleIdle /\ MainIdle

\* The three calls of a function f whose results are compared
Calls(of_A, nested, flat) == [of_A |-> of_A, nested |-> nested, flat |-> flat]

\* series_reliability(A), series_reliability([that] + B), series_reliability(A + B)
CombineSeries ==
    /\ fn = "none"
    /\ fn' = "series_reliability"
    /\ combined' = Calls(series_reliability(A),
                         series_reliability(<<series_reliability(A)>> \o B),
                         series_reliability(A \o B))
    /\ UNCHANGED <<A, B, outside_combine>>

\* parallel_reliability(A), parallel_reliability([that] + B),
\* parallel_reliability(A + B)
CombineParallel ==
    /\ fn = "none"
    /\ fn' = "parallel_reliability"
    /\ combined' = Calls(parallel_reliability(A),
                         parallel_reliability(<<parallel_reliability(A)>> \o B),
                         parallel_reliability(A \o B))
    /\ UNCHANGED <<A, B, outside_combine>>

CombineNext == CombineSeries \/ CombineParallel

SpecCombine == CombineInit /\ [][CombineNext]_vars

-----------------------------------------------------------------------------
(* What parallel_reliability and series_reliability are said to do *)

\* The list A + B and the result of parallel_reliability on it
Whole == A \o B
Parallel == fn = "parallel_reliability"

\* 1 minus the product of the (1 - l[i])
OneMinusProduct(l) == FloatSub(One, Product([i \in DOMAIN l |-> FloatSub(One, l[i])]))

Half == Float(Pow2(Precision - 1), 0 - Precision)

\* |a - b| <= 2^-(Precision + 1), half the spacing of the floats of [0.5, 1)
WithinHalfSpacing(a, b) ==
    LET e == MinExp(a, b)
        d == IF Scaled(a, e) >= Scaled(b, e)
             THEN Scaled(a, e) - Scaled(b, e) ELSE Scaled(b, e) - Scaled(a, e)
    IN  IF e + Precision + 1 <= 0
        THEN d <= Pow2(0 - (e + Precision + 1))
        ELSE d * Pow2(e + Precision + 1) <= 1

\* C11 as the specification states it: parallel_reliability returns 0 for
\* the empty list, R for [R] and 1 minus the product of the (1 - Ri) for any
\* list; for inputs in [0, 1] the result is in [0, 1] and at least as large
\* as every input.
C11_IdentityAndBound ==
    Parallel =>
       /\ Whole = <<>> => combined.flat = Zero
       /\ Len(Whole) = 1 => combined.flat = Whole[1]
       /\ combined.flat = OneMinusProduct(Whole)
       /\ FloatLeq(Zero, combined.flat) /\ FloatLeq(combined.flat, One)
       /\ \A i \in DOMAIN Whole : FloatLeq(Whole[i], combined.flat)

\* C11 as the code has it: parallel_reliability returns 0 for the empty
\* list and 1 minus the product of the (1 - Ri) for any list, in [0, 1] for
\* inputs in [0, 1]; for [R] it returns R when R is 0 or at least 0.5 and a
\* value within half a spacing of R otherwise; the result is at least as
\* large as every input that is at least 0.5, and at least as large as what
\* the function returns for each input alone.
C11_UpToRounding ==
    Parallel =>
       /\ Whole = <<>> => combined.flat = Zero
       /\ Len(Whole) = 1 =>
             /\ (Whole[1] = Zero \/ FloatLeq(Half, Whole[1])) => combined.flat = Whole[1]
             /\ WithinHalfSpacing(combined.flat, Whole[1])
       /\ combined.flat = OneMinusProduct(Whole)
       /\ FloatLeq(Zero, combined.flat) /\ FloatLeq(combined.flat, One)
       /\ \A i \in DOMAIN Whole :
             /\ FloatLeq(Half, Whole[i]) => FloatLeq(Whole[i], combined.flat)
             /\ FloatLeq(OneMinusProduct(<<Whole[i]>>), combined.flat)

\* Two different reliabilities, one of them below 0.5, have been combined in
\* parallel: the result is below 1 and above both
C11_Witness ==
    /\ Parallel /\ Len(Whole) = 2
    /\ Whole[1] # Whole[2] /\ Zero \notin {Whole[1], Whole[2]}
    /\ ~FloatLeq(Half, Whole[1])
    /\ combined.flat # One
    /\ \A i \in DOMAIN Whole : FloatLeq(Whole[i], combined.flat) /\ Whole[i] # combined.flat

\* C12 as the specification states it: for any lists A and B,
\* f([f(A)] + B) = f(A + B) for f = series_reliability and for
\* f = parallel_reliability, A or B empty included.
C12_Associative ==
    fn # "none" => combined.nested = combined.flat

\* C12 as the code has it: series_reliability([series_reliability(A)] + B)
\* = series_reliability(A + B) for any lists A and B; for
\* parallel_reliability the two are equal when A or B is empty (with both
\* non-empty they may differ by rounding).
C12_SeriesAssociative ==
    /\ fn = "series_reliability" => combined.nested = combined.flat
    /\ (Parallel /\ (A = <<>> \/ B = <<>>)) => combined.nested = combined.flat

\* The product of two reliabilities of A and one of B has been taken both
\* ways: the results are equal and neither 0 nor any of the three
C12_Witness ==
    /\ fn = "series_reliability" /\ Len(A) = 2 /\ Len(B) = 1
    /\ combined.nested = combined.flat
    /\ combined.of_A \notin {A[1], A[2], Zero}
    /\ combined.flat \notin {A[1], A[2], B[1], combined.of_A, Zero}

-----------------------------------------------------------------------------
(* The model and lookup functions called on their own *)

\* The numbers of cycles per year passed
Cycles == {0, 1, 365, 1000, 5256, 8759, 8760, 8761, 10000, 17520, 35040, 87600}

\* The category values passed: keys of the tables, and values that are keys
\* of no table (another text, the empty text, an empty cell, a number)
Keys ==
    { Str("MOS Standard, Digital circuits, 2 gates"),
      Str("Bipolar, Linear/Digital circuit low voltage, 15 transistors"),
      Str("zener"), Str("signal"), Str("Power diodes (8.3)"), Str("Low power diode (8.2)"),
      Str("Bipolar"), Str("MOS"), Str("low"), Str("dielectrique"), Str("tantlum"),
      Str("inductor"), Str("tranformer"), Str("Power Inductor"), Str("power"),
      Str("Epoxy"), Str("FR4"), Str("TO-220, 3 pins"), Str("Primary batteries (19.1)"),
      Str("W<10"), Str("W>10"),
      Str("Converter <10W (19.6)"), Str("Converter >10W (19.6)"),
      Str("Relay (16)"), Str(""), NaN, Num(7) }

\* A category value where the code compares it with texts: a value that is
\* no text equals none of them
Text(key) == IF key.k = "str" THEN key.s ELSE "(no text)"

PiN == {"pi_n_i", "pi_n_d", "pi_n_t", "pi_nr", "pi_n_tr", "pi_n_co"}

Lookups ==
    { "l_1", "l_2", "N", "pi_t_i", "pi_alpha", "lambda_int", "l_0_dio", "lambda_diode",
      "pi_t_t", "l_0_trans", "pi_s_t", "lambda_transistors", "pi_t_c", "lambda_capacitors",
      "l_0_i", "lambda_inductors", "lambda_primary", "lambda_converters", "l_b" }

\* The two routines that compute the rate of a row from its class
Dispatchers == {"calculate_block_reliability", "relia"}

\* Reliability.py, lines 472-474: what relia appends for a row of the class
\* because of its converter branch. The indicator passed is the number 8,
\* which lambda_converters (lines 406-412) compares with the text "W<10";
\* no branch of relia names the converters above 10 W.
\* Lines 484-486: the branch of the integrated circuits calls lambda_int with
\* eight arguments; lambda_int (lines 163-164) has nine parameters and no
\* default, so the call raises TypeError whatever the row holds.
relia(class, n_i, d_t) ==
    IF class = Str("Converter <10W (19.6)")
    THEN lambda_converters(Text(Num(8)), n_i, d_t)
    ELSE IF class = Str("Integrated Circuit (7)")
    THEN Exc("TypeError")
    ELSE None

\* f called with the number of cycles g.n and the category values g.key and
\* g.key2, its other arguments being those of a component in good order
Evaluate(f, g) ==
    CASE f = "pi_n_i" -> K(pi_n_i(g.n))
      [] f = "pi_n_d" -> K(pi_n_d(g.n))
      [] f = "pi_n_t" -> K(pi_n_t(g.n))
      [] f = "pi_nr" -> K(pi_nr(g.n))
      [] f = "pi_n_tr" -> K(pi_n_tr(g.n))
      [] f = "pi_n_co" -> K(pi_n_co(g.n))
      [] f = "l_1" -> K(l_1(g.key))
      [] f = "l_2" -> K(l_2(g.key))
      [] f = "N" -> K(N(g.key))
      [] f = "pi_t_i" -> pi_t_i(Num(55), g.key)
      [] f = "pi_alpha" -> K(pi_alpha(g.key, g.key2))
      [] f = "lambda_int" ->
            lambda_int(Num(1998), Num(55), g.key2, g.key2, NI, DT, g.key, g.key, Num(1300))
      [] f = "l_0_dio" -> K(l_0_dio(g.key, Text(g.key2)))
      [] f = "lambda_diode" ->
            lambda_diode(g.key, Num(40), NI, DT, 1000, PI_I, LEOS, Text(g.key2))
      [] f = "pi_t_t" -> pi_t_t(Num(100), Text(g.key))
      [] f = "l_0_trans" -> K(l_0_trans(Text(g.key)))
      [] f = "pi_s_t" ->
            pi_s_t(Text(g.key), Num(12), Num(24), Num(10), Num(20), Num(5), Num(20))
      [] f = "lambda_transistors" ->
            lambda_transistors(NI, Num(100), Text(g.key), Text(g.key2), DT, l_b(g.key2),
                               PI_I, LEOS, Num(12), Num(24), Num(10), Num(20), Num(5), Num(20))
      [] f = "pi_t_c" -> pi_t_c(Num(30), Text(g.key))
      [] f = "lambda_capacitors" -> lambda_capacitors(NI, Num(30), DT, Text(g.key))
      [] f = "l_0_i" -> K(l_0_i(Text(g.key), g.key2))
      [] f = "lambda_inductors" ->
            lambda_inductors(Text(g.key), g.key2, NI, DT, Num(30), Num(66), 132)
      [] f = "lambda_primary" -> lambda_primary(g.key)
      [] f = "lambda_converters" -> lambda_converters(Text(g.key), NI, DT)
      [] f = "l_b" -> K(l_b(g.key))
      [] f = "calculate_block_reliability" ->
            DispatchRow(RowOf(("Class" :> g.key) @@ ("Reference" :> Str("U1"))),
                        NI, DT, PI_I, LEOS, FALSE).lam
      [] f = "relia" -> relia(g.key, NI, DT)

ModelsInit ==
    /\ given \in [n : Cycles, key : Keys, key2 : Keys]
    /\ called = "none" /\ value = None
    /\ BlockIdle /\ SeriesIdle /\ CombineIdle /\ ModuleIdle /\ MainIdle

\* One call of one function
Apply ==
    /\ called = "none"
    /\ \E f \in PiN \cup Lookups \cup Dispatchers :
          /\ called' = f
          /\ value' = Evaluate(f, given)
    /\ UNCHANGED <<given, outside_models>>

SpecModels == ModelsInit /\ [][Apply]_vars

-----------------------------------------------------------------------------
(* The cycling factor *)

\* n ** 0.76 up to 8760 cycles a year, 1.7 * n ** 0.6 above, in thousandths
TwoRegimes(n) ==
    IF n <= 8760 THEN PowM(n * 1000, 760) ELSE (17 * PowM(n * 1000, 600)) \div 10

\* C13: each of pi_n_i, pi_n_d, pi_n_t, pi_nr, pi_n_tr and pi_n_co returns,
\* for every number of cycles n, n ** 0.76 when n <= 8760 and 1.7 * n ** 0.6
\* when n > 8760: the six are one function of n and each returns a number
C13_OneCyclingFactor ==
    called \in PiN => value = Num(TwoRegimes(given.n))

\* pi_n_co called at the boundary n = 8760 has returned 8760 ** 0.76, which
\* is not 1.7 * 8760 ** 0.6
C13_Witness ==
    /\ called = "pi_n_co" /\ given.n = 8760
    /\ value = Num(PowM(8760000, 760))
    /\ value # Num((17 * PowM(8760000, 600)) \div 10)

-----------------------------------------------------------------------------
(* Primary batteries *)

Battery == Str("Primary batteries (19.1)")

\* The rows of the block that are primary batteries
BatteryRows == {i \in DOMAIN block_df : RowClass(i) = Battery}

\* C14: a row of class 'Primary batteries (19.1)' gets the rate 20e-9 and is
\* counted in the total of the block, whatever its other cells hold and
\* whatever mission constants are passed; lambda_primary of any other class
\* tag is 0, no exception.
C14_BatteryAlwaysCounted ==
    /\ \A i \in Handled : RowClass(i) = Battery => lambdas[i] = Num(20000)
    /\ Done =>
          /\ \A i \in BatteryRows :
                /\ ret.df[i].Failure_rate = Num(20000)
                /\ ret.df[i].Reliability = ExpNeg(20000, t_mission)
          /\ ret.lambda_total =
                20000 * Cardinality(BatteryRows)
                + SumOver([i \in DOMAIN block_df |-> Contribution(lambdas[i])],
                          DOMAIN block_df \ BatteryRows)
    /\ Done => \A key \in Keys :
                  lambda_primary(key) = IF key = Battery THEN Num(20000) ELSE Num(0)

\* On a one-year mission with one cycle a day, a battery whose other cells
\* are malformed and a second component that has a rate: the total returned
\* is 20e-9 more than the rate of the second
C14_Witness ==
    /\ Done /\ ni = 365 /\ t_mission = 8760 /\ Len(block_df) = 2
    /\ RowClass(1) = Battery /\ block_df[1]["Temperature_Junction"] = Str("hot")
    /\ RowClass(2) # Battery /\ Positive(lambdas[2])
    /\ lambdas[1] = Num(20000)
    /\ ret.lambda_total = 20000 + lambdas[2].n

-----------------------------------------------------------------------------
(* Converters *)

\* base * (1 + 3e-3 * pi_n * dt ** 0.68) for the default cycles and swing
ConverterRate(base) == Num(base * (1000 + ((3 * CycleTerm(pi_n_co(NI), DT)) \div 1000)))

\* C15: in calculate_block_reliability and in relia, a row of class
\* 'Converter <10W (19.6)' gets the converter rate of base 100 and a row of
\* class 'Converter >10W (19.6)' the converter rate of base 130.
C15_BaseRateByPower ==
    called \in Dispatchers =>
       /\ given.key = Str("Converter <10W (19.6)") => value = ConverterRate(100)
       /\ given.key = Str("Converter >10W (19.6)") => value = ConverterRate(130)

-----------------------------------------------------------------------------
(* Category values outside the tables *)

\* The values of Keys that are keys of the table of f (for l_0_dio and l_0_i
\* the pairs of the two keys of the nested table)
InTable(f, g) ==
    CASE f \in {"l_1", "l_2", "N"} ->
            g.key \in { Str("MOS Standard, Digital circuits, 2 gates"),
                        Str("Bipolar, Linear/Digital circuit low voltage, 15 transistors") }
      [] f = "l_0_dio" ->
            \/ g.key = Str("signal")
            \/ g.key = Str("zener") /\ g.key2 \in DiodeClasses
      [] f \in {"pi_t_t", "pi_s_t"} -> g.key \in {Str("Bipolar"), Str("MOS")}
      [] f \in {"pi_t_c", "lambda_capacitors"} ->
            g.key \in {Str("dielectrique"), Str("tantlum")}
      [] f = "l_0_i" ->
            \/ g.key = Str("inductor") /\ g.key2 = Str("Power Inductor")
            \/ g.key = Str("tranformer") /\ g.key2 \in {Str("signal"), Str("power")}
      [] f = "pi_alpha" -> g.key = Str("Epoxy") /\ g.key2 = Str("FR4")
      [] f = "l_b" -> g.key = Str("TO-220, 3 pins")
      [] f = "lambda_primary" -> g.key = Battery
      [] OTHER -> TRUE

\* C16: a model or lookup function called with a category value that is no
\* key of its table (IC characteristic, diode function or power class,
\* transistor family, capacitor type, inductor family or subtype, substrate
\* or component material, package, battery class) returns 0, and l_b returns
\* 1.0; no call raises.
C16_FallbackOutsideTable ==
    called \in Lookups =>
       /\ ~IsExc(value)
       /\ ~InTable(called, given) =>
             value = IF called = "l_b" THEN Num(1000) ELSE Num(0)

-----------------------------------------------------------------------------
(* The radiating surface of an inductor *)

\* The inductors of the block whose three required cells are filled
ReadyInductors ==
    {i \in Handled :
        /\ RowClass(i) = Str("Inductor (12)")
        /\ MissingOf(block_df[i], <<"Temperature_Ambiant", "Power loss", "Radiating surface">>) = <<>>}

\* The width and the height a surface text gives in millimetres, << >> for a
\* text that gives none
Dimensions(cell) ==
    CASE cell = Txt(<<"1", "0", " ", "x", " ", "1", "2">>) -> <<10, 12>>
      [] cell = Txt(<<"1", "1", "x", "1", "2">>) -> <<11, 12>>
      [] cell = Txt(<<"0", " ", "x", " ", "1", "2">>) -> <<0, 12>>
      [] OTHER -> <<>>

\* The rate of the inductor of row i for the area sur (in 1e-4 dm2), 0 when
\* the model raises
RateForArea(i, sur) ==
    Caught(Body(lambda_inductors("inductor", block_df[i]["Inductor type"], ni, dt,
                                 block_df[i]["Temperature_Ambiant"],
                                 block_df[i]["Power loss"], sur), <<>>),
           RowRef(i), FALSE).lam

\* An issue recorded names the component of row i and its surface text
SurfaceReported(i) ==
    \E k \in DOMAIN errors :
        /\ Mentions(errors[k], RowRef(i))
        /\ Mentions(errors[k], block_df[i]["Radiating surface"])

\* The row i with the dimensions d of its surface text
SurfaceHandled(i, d) ==
    IF d # <<>>
    THEN /\ lambdas[i] = RateForArea(i, d[1] * d[2])
         /\ ~SurfaceReported(i)
    ELSE /\ SurfaceReported(i)
         /\ lambdas[i] = RateForArea(i, 132)
         /\ block_df[i]["Inductor type"] = Str("Power Inductor") => Positive(lambdas[i])
         /\ Done => /\ ret.df[i].Failure_rate = lambdas[i]
                    /\ ret.lambda_total =
                          SumOver([j \in DOMAIN block_df |-> Contribution(lambdas[j])],
                                  DOMAIN block_df)

-----------------------------------------------------------------------------
(* Optional fields *)

\* The defaults of the optional fields; the package 'SOT-23, 3 pins' has the
\* rate 1.0
Defaults ==
    ("Lam3" :> Num(1300)) @@ ("Inductor type" :> Str("Power Inductor"))
    @@ ("Table 18" :> Str("SOT-23, 3 pins"))

\* The row with the default in each of the cells of `optional` that is empty
Filled(row, optional) ==
    [c \in DOMAIN row |-> IF c \in optional /\ isna(row[c]) THEN Defaults[c] ELSE row[c]]

\* The rows dealt with get the rate they would get with the cells of
\* `optional` filled with their defaults where they are empty
AsIfFilled(optional) ==
    \A i \in Handled :
        lambdas[i] = DispatchRow(Filled(block_df[i], optional), ni, dt, pi_i, leos, verbose).lam

\* C18: an optional field left empty (Lam3 of an integrated circuit, the
\* Table 18 package of a diode or transistor, the Inductor type of an
\* inductor) is replaced by its default (1.3, the package rate 1.0, 'Power
\* Inductor') before the model is called: the component gets the rate of
\* the row with the default filled in, and is counted when that rate is
\* positive.
C18_OptionalDefaulted ==
    AsIfFilled({"Lam3", "Inductor type", "Table 18"})

-----------------------------------------------------------------------------
(* Results and the values of the module *)

\* The rate the row i of the table gets from the arguments passed
RateFromArguments(i) == DispatchRow(df[i], ni, dt, pi_i, leos, verbose).lam

\* The total of the block of the given name, from the arguments passed
TotalFromArguments(name) ==
    SumOver([i \in DOMAIN df |-> Contribution(RateFromArguments(i))],
            {i \in DOMAIN df : df[i]["Sheet"] = Str(name)})

\* The call of calculate_block_reliability has returned what the table and
\* the mission constants passed give
BlockFromArguments ==
    /\ ret.lambda_total = TotalFromArguments(sheet_name)
    /\ ret.R_block = Rel(RateTimesTime(TotalFromArguments(sheet_name), t_mission))
    /\ \A k \in DOMAIN ret.df :
          \E i \in InSheet :
             /\ ret.df[k].Reference = df[i]["Reference"]
             /\ ret.df[k].Failure_rate = RateFromArguments(i)

\* The call of calculate_group_reliability has returned what the table, the
\* list of blocks and the mission constants passed give
GroupFromArguments(sheet_list, g) ==
    /\ DOMAIN g.lambda_list = DOMAIN sheet_list /\ DOMAIN g.R_list = DOMAIN sheet_list
    /\ \A k \in DOMAIN sheet_list :
          /\ g.lambda_list[k] = TotalFromArguments(sheet_list[k])
          /\ g.R_list[k] = Rel(RateTimesTime(TotalFromArguments(sheet_list[k]), t_mission))
    /\ g.lambda_group = SumOver([k \in DOMAIN sheet_list |-> TotalFromArguments(sheet_list[k])],
                                DOMAIN sheet_list)
    /\ g.R_group.of = g.R_list

\* C19: what calculate_block_reliability and calculate_group_reliability
\* return is given by the table and the mission constants passed: equal
\* arguments give equal results, whatever values NI, DT, T_MISSION, PI_I and
\* LEOS of the module have been given before the call.
C19_ArgumentsOnly ==
    /\ Done => BlockFromArguments
    /\ group # None => GroupFromArguments(group.sheet_list, group.ret)

\* The module has been given other values, the arguments passed are the
\* original ones, and both calls have returned a total that is positive: the
\* block holds a component whose rate depends on the cycles and the swing
C19_Witness ==
    /\ Done /\ module = Rebound /\ ni = NI /\ dt = DT /\ t_mission = T_MISSION
    /\ module.NI # ni /\ module.T_MISSION # t_mission
    /\ sheet_name = "/Power/" /\ Len(block_df) = 1
    /\ RowClass(1) = Str("Converter <10W (19.6)")
    /\ ret.lambda_total = lambda_converters("W<10", NI, DT).n
    /\ ret.lambda_total # lambda_converters("W<10", module.NI, module.DT).n
    /\ group # None /\ group.sheet_list = <<"/Power/", "/Power/Boost/">>
    /\ group.ret.lambda_group = ret.lambda_total + 20000

-----------------------------------------------------------------------------
(* The table of the caller *)

\* The columns of the table returned
ResultColumns == {"Reference", "Class", "Failure_rate", "Reliability"}

\* No row of the table passed has a column Failure_rate or Reliability, and
\* every row of a table returned has both
ColumnsOnlyReturned ==
    /\ \A i \in DOMAIN df : DOMAIN df[i] \cap {"Failure_rate", "Reliability"} = {}
    /\ Done => \A k \in DOMAIN ret.df : DOMAIN ret.df[k] = ResultColumns

\* C20: no step of calculate_block_reliability changes the table passed by
\* the caller (every row and every cell stays as it was, whether the block
\* is empty, sound, or holds components left out or faulty), and the columns
\* Failure_rate and Reliability are in the table returned only.
C20_InputUntouched ==
    [][df' = df]_vars /\ []ColumnsOnlyReturned

\* A call has returned for a block of two components, the first left out
\* and the second counted: the table returned has the two new columns and the
\* table passed has its rows as before, without them
C20_Witness ==
    /\ Done /\ Len(df) = 2 /\ Len(ret.df) = 2
    /\ Excluded(1) /\ Positive(lambdas[2])
    /\ ret.df[2].Failure_rate = lambdas[2]
    /\ DOMAIN ret.df[1] = ResultColumns
    /\ \A i \in DOMAIN df :
          /\ df[i] = block_df[i]
          /\ "Failure_rate" \notin DOMAIN df[i] /\ "Reliability" \notin DOMAIN df[i]

-----------------------------------------------------------------------------
(* calculate_block_reliability on a block of many components *)

\* The largest number of rows of a large block
MaxBlock == 12

\* The components of a large block: a capacitor without its temperature,
\* for which an issue is recorded, and one in good order
LargeKinds ==
    { ("Sheet" :> Str("/Power/")) @@ ClassRow("Ceramic Capacitor (10.3)", Empty),
      ("Sheet" :> Str("/Power/"))
          @@ ClassRow("Ceramic Capacitor (10.3)", "Temperature_Ambiant" :> Num(30)) }

\* The table of a large block, every row with a reference of its own
LargeTable(t) ==
    [i \in DOMAIN t |-> ("Reference" :> Str("C" \o ToString(i))) @@ t[i]]

LargeInit ==
    /\ \E n \in 0..MaxBlock : \E t \in [1..n -> LargeKinds] : df = LargeTable(t)
    /\ sheet_name = "/Power/"
    /\ ni = NI /\ dt = DT /\ t_mission = T_MISSION /\ pi_i = PI_I /\ leos = LEOS
    /\ verbose \in BOOLEAN
    /\ pc = "start"
    /\ block_df = <<>> /\ idx = 1
    /\ lambdas = <<>> /\ errors = <<>> /\ out = <<>>
    /\ ret = None
    /\ SeriesIdle /\ CombineIdle /\ ModelsIdle /\ ModuleIdle /\ MainIdle

SpecLarge == LargeInit /\ [][Next]_vars

-----------------------------------------------------------------------------
(* C21: the issues shown at the end of a verbose call *)

\* The number of issues shown when k were recorded
ShownOf(k) == IF k < 10 THEN k ELSE 10

\* The positions of the printed lines that are recorded issues
IssuesShown == {p \in DOMAIN out : \E k \in DOMAIN errors : out[p] = errors[k]}

\* The positions of the printed lines that tell how many more issues there are
MoreLines == {p \in DOMAIN out : out[p][1] = Lit("... and ")}

\* The issues are printed from position p on: the heading, the first
\* ShownOf(k) issues in the order of their recording, and with more than ten
\* issues the line that tells how many are left
ShownFrom(p, k) ==
    /\ p + ShownOf(k) + (IF k > 10 THEN 1 ELSE 0) <= Len(out)
    /\ out[p] = <<Lit("Data Quality Issues:")>>
    /\ \A j \in 1..ShownOf(k) : out[p + j] = errors[j]
    /\ k > 10 => out[p + 11] = <<Lit("... and "), Num(k - 10), Lit(" more")>>

\* C21: at the end of a verbose call with k recorded issues, exactly
\* min(k, 10) issues are printed, the first ones in the order of their
\* recording, and one further line tells that k - 10 more exist exactly when
\* k is above ten, so no more than eleven such lines are printed whatever k
C21_AtMostTenIssuesShown ==
    (Done /\ verbose /\ errors # <<>>) =>
        /\ \E p \in DOMAIN out : ShownFrom(p, Len(errors))
        /\ Cardinality(IssuesShown) = ShownOf(Len(errors))
        /\ Cardinality(MoreLines) = (IF Len(errors) > 10 THEN 1 ELSE 0)

C21_Witness ==
    /\ Done /\ verbose /\ Len(errors) = 12
    /\ \E p \in DOMAIN out : out[p] = <<Lit("... and "), Num(2), Lit(" more")>>
    /\ Cardinality(IssuesShown) = 10

-----------------------------------------------------------------------------
(* C22: the count of the components left out *)

\* The components of the block that add nothing to the total
ExcludedRows == {i \in Handled : Excluded(i)}

\* Line 885 as printed for n components
CountLine(n) ==
    <<Lit("WARNING: "), Num(n), Lit("/"), Num(Len(lambdas)),
      Lit(" components have lambda=0 due to missing data")>>

\* C22: at the end of a verbose call in which at least one component adds
\* nothing to the total, a line gives the number of such components, so that
\* it and the number of valid components add up to the size of the block.
C22_ExcludedCountReported ==
    (Done /\ verbose /\ ExcludedRows # {}) =>
        \E p \in DOMAIN out : out[p] = CountLine(Cardinality(ExcludedRows))

-----------------------------------------------------------------------------
(* C23: one rate and one row of the table returned per component *)

\* Row i of the table returned is component i of the block with its rate
RowReturned(i) ==
    /\ DOMAIN ret.df[i] = ResultColumns
    /\ ret.df[i].Reference = RowRef(i)
    /\ ret.df[i].Class = RowClass(i)
    /\ ret.df[i].Failure_rate = lambdas[i]

\* C23: during the loop exactly one rate has been recorded for each row
\* already handled, whatever path the row took, and the table returned for a
\* non-empty block has one row per component of the block, left out or not,
\* in the order of the block, with the columns Reference, Class, Failure_rate
\* and Reliability.
C23_OneRowPerComponent ==
    /\ pc = "loop" => Len(lambdas) = idx - 1 /\ idx <= Len(block_df) + 1
    /\ (Done /\ block_df # <<>>) =>
           /\ Len(lambdas) = Len(block_df)
           /\ DOMAIN ret.df = DOMAIN block_df
           /\ \A i \in DOMAIN block_df : RowReturned(i)

C23_Witness ==
    /\ Done /\ Len(block_df) = 2 /\ Len(ret.df) = 2 /\ Len(lambdas) = 2
    /\ RowClass(1) = Str("") /\ IsZero(lambdas[1])
    /\ RowClass(2) \in KnownClasses /\ Positive(lambdas[2])
    /\ ret.df[1].Reference = Str("Q1") /\ ret.df[2].Reference = Str("Q2")
    /\ ret.df[1].Reliability = NaN

-----------------------------------------------------------------------------
(* C24: calculate_group_reliability, with the reliabilities as floats *)

RECURSIVE ExpSeries(_, _, _)
\* term - term * y / k + term * y^2 / (k (k + 1)) - ..., in units of 2^-16
ExpSeries(term, y, k) ==
    IF term = 0 THEN 0 ELSE term - ExpSeries((term * y) \div (k * 65536), y, k + 1)

\* mat.exp(-x * 1e-10) as a float: the float nearest to the exponential
FloatExp(x) == Nearest(ExpSeries(65536, x \div 152588, 1), 0 - 16)

\* The floats of a list of reliabilities
FloatsOf(l) == [i \in DOMAIN l |-> FloatExp(l[i].x)]

\* R_group as series_reliability computes it from R_list
GroupValue == series_reliability(FloatsOf(group.ret.R_group.of))

\* The reliability obtained from the rate of the group and the mission time
FromGroupRate == FloatExp(RateTimesTime(group.ret.lambda_group, t_mission))

\* The distance of two floats, in units of the last place of the finer one
Gap(a, b) ==
    IF FloatLeq(a, b) THEN Scaled(b, MinExp(a, b)) - Scaled(a, MinExp(a, b))
    ELSE Scaled(a, MinExp(a, b)) - Scaled(b, MinExp(a, b))

\* One reliability and one rate per block of the list, in its order, each
\* what the table and the mission passed give for the block
ListsInOrder ==
    /\ DOMAIN group.ret.R_list = DOMAIN group.sheet_list
    /\ DOMAIN group.ret.lambda_list = DOMAIN group.sheet_list
    /\ \A k \in DOMAIN group.sheet_list :
          /\ group.ret.lambda_list[k] = TotalFromArguments(group.sheet_list[k])
          /\ group.ret.R_list[k] = ExpNeg(group.ret.lambda_list[k], t_mission)

\* The rate of the group is the sum of the list of rates, and its reliability
\* the product of the list of reliabilities
SumAndProduct ==
    /\ group.ret.lambda_group
          = SumOver(group.ret.lambda_list, DOMAIN group.ret.lambda_list)
    /\ group.ret.R_group.of = group.ret.R_list
    /\ GroupValue = Product(FloatsOf(group.ret.R_list))

\* C24 as the specification states it: calculate_group_reliability returns
\* one reliability and one rate per block of the list, in its order, the sum
\* of the rates and the series product of the reliabilities, and that
\* product equals the reliability obtained from the rate of the group and the
\* mission time.
C24_EqualsFromGroupRate ==
    group # None =>
        /\ ListsInOrder
        /\ SumAndProduct
        /\ GroupValue = FromGroupRate

\* C24 as the code has it: the lists, the sum and the product are as stated;
\* the product is the reliability obtained from the rate of the group when
\* the list has at most one block, and for a longer list it is within
\* rounding of it (four units of the last place).
C24_EqualsUpToRounding ==
    group # None =>
        /\ ListsInOrder
        /\ SumAndProduct
        /\ Len(group.sheet_list) <= 1 => GroupValue = FromGroupRate
        /\ Gap(GroupValue, FromGroupRate) <= 4

C24_Witness ==
    /\ group # None /\ group.sheet_list = <<"/Power/", "/Power/Boost/">>
    /\ group.ret.lambda_list[1] > 0 /\ group.ret.lambda_list[2] > 0
    /\ group.ret.lambda_group = group.ret.lambda_list[1] + group.ret.lambda_list[2]
    /\ GroupValue # One
    /\ GroupValue # FromGroupRate
    /\ Gap(GroupValue, FromGroupRate) = 1

-----------------------------------------------------------------------------
(* The functions of task1_monte_carlo.py and task2_sensitivity_analysis.py *)

\* The largest number of draws asked for
MaxDraws == 3

\* What a call has returned
Return(x) == [k |-> "return", v |-> x]

\* The arguments of the calls: the table, the block, the number of draws, the
\* component and the parameter varied and the variation in percent
TaskInputs ==
    [df : {WithReferences(t) : t \in SmallTables}, sheet_name : Sheets,
     n_iterations : 0..MaxDraws, component_ref : {"Q1"},
     parameter_name : {"Temperature_Junction", "Lam3"}, variation_percent : {10, 25}]

TasksInit ==
    /\ given \in TaskInputs
    /\ called = "none" /\ value = None
    /\ BlockIdle /\ SeriesIdle /\ CombineIdle /\ ModuleIdle /\ MainIdle

\* task1 lines 159-206: lambda_samples = np.zeros(n_iterations), returned as
\* it is for any row of the table
monte_carlo_component_lambda ==
    /\ called = "none"
    /\ given.df # <<>>
    /\ called' = "monte_carlo_component_lambda"
    /\ value' = Return([i \in 1..given.n_iterations |-> Num(0)])
    /\ UNCHANGED <<given, outside_models>>

\* task1 lines 209-250: the dictionary of results, every entry None
monte_carlo_block_reliability ==
    /\ called = "none"
    /\ called' = "monte_carlo_block_reliability"
    /\ value' = Return([lambda_samples |-> None, R_samples |-> None,
                        lambda_mean |-> None, lambda_std |-> None,
                        R_mean |-> None, R_std |-> None, R_ci_95 |-> None])
    /\ UNCHANGED <<given, outside_models>>

\* task2 lines 51-96: the block is selected and nothing is computed; the
\* function ends with pass and returns None
calculate_block_reliability_with_overrides ==
    /\ called = "none"
    /\ called' = "calculate_block_reliability"
    /\ value' = Return(None)
    /\ UNCHANGED <<given, outside_models>>

\* task2 lines 103-151: the dictionary of results, every entry None
calculate_sensitivity_coefficient ==
    /\ called = "none"
    /\ called' = "calculate_sensitivity_coefficient"
    /\ value' = Return([baseline_R |-> None, increased_R |-> None, decreased_R |-> None,
                        sensitivity |-> None, impact |-> None])
    /\ UNCHANGED <<given, outside_models>>

TasksNext ==
    \/ monte_carlo_component_lambda
    \/ monte_carlo_block_reliability
    \/ calculate_block_reliability_with_overrides
    \/ calculate_sensitivity_coefficient

SpecTasks == TasksInit /\ [][TasksNext]_vars

-----------------------------------------------------------------------------
(* C25 and C26: what the analyses return *)

\* C25: monte_carlo_block_reliability called for N draws returns
\* lambda_samples and R_samples of length N, entry i of R_samples being the
\* reliability for entry i of lambda_samples, with the means, the standard
\* deviations and an interval for R whose lower end is not above its upper
\* end.
C25_DrawsReturned ==
    called = "monte_carlo_block_reliability" =>
        /\ value.v.lambda_samples # None
        /\ value.v.R_samples # None
        /\ Len(value.v.lambda_samples) = given.n_iterations
        /\ Len(value.v.R_samples) = given.n_iterations
        /\ \A i \in 1..given.n_iterations :
              value.v.R_samples[i] = ExpNeg(value.v.lambda_samples[i], T_MISSION)
        /\ value.v.lambda_mean # None /\ value.v.lambda_std # None
        /\ value.v.R_mean # None /\ value.v.R_std # None
        /\ value.v.R_ci_95 # None
        /\ value.v.R_ci_95[1] <= value.v.R_ci_95[2]

\* C26: calculate_sensitivity_coefficient returns the reliability at the
\* baseline and at the value raised and lowered by the variation, the
\* coefficient S and a tier of impact, and S is negative when the parameter
\* is the junction temperature of an integrated circuit.
C26_CoefficientReturned ==
    called = "calculate_sensitivity_coefficient" =>
        /\ value.v.baseline_R # None
        /\ value.v.increased_R # None
        /\ value.v.decreased_R # None
        /\ value.v.sensitivity # None
        /\ value.v.impact \in {"High", "Medium", "Low"}
        /\ given.parameter_name = "Temperature_Junction" => value.v.sensitivity < 0

-----------------------------------------------------------------------------
(* main.py: safe_execute and the menu loop of main() *)

\* The largest number of times the menu is shown
MaxMenus == 3

KeyboardInterrupt == Exc("KeyboardInterrupt")
EOFError == Exc("EOFError")

\* What input() gives: a line typed, or the exception it raises when the
\* user interrupts or the input has ended
Lines == {"0", "1", "2", "3", "4", "5", "9", "", "y", "Y", "n"}
Typed == {Str(l) : l \in Lines} \cup {KeyboardInterrupt, EOFError}

\* .lower() of a line typed
lower(a) == IF a = Str("Y") THEN Str("y") ELSE a

\* What the function wrapped does: it returns, or raises
Outcomes ==
    {Str("returns")} \cup {Exc(e) : e \in {"FileNotFoundError", "ImportError", "ValueError",
                                        "KeyboardInterrupt"}}

\* The exceptions that are instances of Exception
IsException(e) == IsExc(e) /\ e # KeyboardInterrupt

\* Lines 53-80: True when func returns, False when it raises an Exception; an
\* exception that is not an Exception is not caught
safe_execute(func) ==
    IF func = Str("returns") THEN Return(TRUE)
    ELSE IF IsException(func) THEN Return(FALSE)
    ELSE func

\* run_block_reliability, run_task1, run_task2: the file and the block are
\* asked for (an input() there may raise), then the analysis runs under
\* safe_execute.  The result: Str("returns"), or the exception that leaves the call
RunAnalysis(asked, func) ==
    IF IsExc(asked) THEN asked
    ELSE IF asked = Str("cancelled") THEN Str("returns")
    ELSE IF IsExc(safe_execute(func)) THEN safe_execute(func)
    ELSE Str("returns")

\* Where the loop goes when exc is raised in its try block, lines 671-682
Handler(exc) == IF exc = KeyboardInterrupt THEN "confirm" ELSE "proceed"

MainInit ==
    /\ menu = "start" /\ menus = 0 /\ how = None /\ last = None
    /\ BlockIdle /\ SeriesIdle /\ CombineIdle /\ ModelsIdle /\ ModuleIdle

\* Lines 628-643: the check of the environment, and the question asked when
\* it fails
Start ==
    /\ menu = "start"
    /\ \E all_ok \in BOOLEAN, a \in Typed :
          /\ last' = [choice |-> None, asked |-> None, func |-> None, executed |-> None,
                      answer |-> IF all_ok THEN None ELSE a]
          /\ IF all_ok \/ lower(a) = Str("y")
             THEN menu' = "menu" /\ how' = how
             ELSE menu' = "ended" /\ how' = [at |-> "start", by |-> IF IsExc(a) THEN a ELSE None]
    /\ UNCHANGED <<menus, block_vars, series_vars, combine_vars, models_vars, module_vars>>

\* Lines 646-669: the menu is shown, a choice is read and carried out
Choose ==
    /\ menu = "menu" /\ menus < MaxMenus
    /\ menus' = menus + 1
    /\ \E c \in Typed, asked \in {Str("given"), Str("cancelled"), KeyboardInterrupt, EOFError},
          func \in Outcomes :
          /\ last' = [choice |-> c, asked |-> asked, func |-> func,
                      executed |-> IF c \in {Str("1"), Str("2"), Str("3")} /\ asked = Str("given")
                                   THEN safe_execute(func) ELSE None,
                      answer |-> None]
          /\ IF IsExc(c) THEN menu' = Handler(c) /\ how' = how
             ELSE IF c = Str("0")
             THEN menu' = "ended" /\ how' = [at |-> "loop", by |-> Str("choice 0")]
             ELSE IF c \in {Str("1"), Str("2"), Str("3")}
             THEN /\ menu' = IF IsExc(RunAnalysis(asked, func))
                             THEN Handler(RunAnalysis(asked, func)) ELSE "pause"
                  /\ how' = how
             ELSE IF c = Str("5") /\ IsExc(asked)
             THEN menu' = Handler(asked) /\ how' = how
             ELSE menu' = "menu" /\ how' = how
    /\ UNCHANGED <<block_vars, series_vars, combine_vars, models_vars, module_vars>>

\* Line 669: Press Enter to return to menu
Pause ==
    /\ menu = "pause"
    /\ \E a \in Typed :
          /\ last' = [last EXCEPT !.answer = a]
          /\ menu' = IF IsExc(a) THEN Handler(a) ELSE "menu"
    /\ UNCHANGED <<menus, how, block_vars, series_vars, combine_vars, models_vars, module_vars>>

\* Lines 671-676: after a keyboard interrupt, Do you want to exit?
Confirm ==
    /\ menu = "confirm"
    /\ \E a \in Typed :
          /\ last' = [last EXCEPT !.answer = a]
          /\ IF IsExc(a) THEN menu' = "ended" /\ how' = [at |-> "loop", by |-> a]
             ELSE IF lower(a) = Str("y")
             THEN menu' = "ended" /\ how' = [at |-> "loop", by |-> Str("confirmed exit")]
             ELSE menu' = "menu" /\ how' = how
    /\ UNCHANGED <<menus, block_vars, series_vars, combine_vars, models_vars, module_vars>>

\* Lines 677-682: after another exception, Continue?
Proceed ==
    /\ menu = "proceed"
    /\ \E a \in Typed :
          /\ last' = [last EXCEPT !.answer = a]
          /\ IF IsExc(a) THEN menu' = "ended" /\ how' = [at |-> "loop", by |-> a]
             ELSE IF lower(a) = Str("y")
             THEN menu' = "menu" /\ how' = how
             ELSE menu' = "ended" /\ how' = [at |-> "loop", by |-> Str("declined to continue")]
    /\ UNCHANGED <<menus, block_vars, series_vars, combine_vars, models_vars, module_vars>>

MainNext == Start \/ Choose \/ Pause \/ Confirm \/ Proceed

SpecMain == MainInit /\ [][MainNext]_vars

-----------------------------------------------------------------------------
(* C27: the session and the failures of the analyses *)

\* safe_execute has returned True exactly when the function wrapped returned,
\* and False, letting nothing through, when it raised an Exception
GuardedResult ==
    (last # None /\ last.executed # None) =>
        /\ last.executed = Return(TRUE) <=> last.func = Str("returns")
        /\ IsException(last.func) => last.executed = Return(FALSE)

\* C27: safe_execute returns True exactly when the function wrapped returns
\* and False for every Exception it raises, and the loop of the menu ends
\* only after choice 0, after the exit is confirmed following a keyboard
\* interrupt, or after the user declines to continue following an
\* unexpected error.
C27_SessionEndsOnlyByUser ==
    /\ GuardedResult
    /\ (menu = "ended" /\ how.at = "loop") =>
           how.by \in {Str("choice 0"), Str("confirmed exit"), Str("declined to continue")}

-----------------------------------------------------------------------------
(* main.py: run_block_reliability, the calculation it runs under safe_execute *)

\* The most rows of the table read from the file
MaxRun == 3

\* The names of blocks a file can hold, in the order sorted() gives them
BlockNames == <<"/Power", "/Power/Boost", "/Power2", "/Radio">>

\* The characters of a name
Spell(name) ==
    CASE name = "/Power" -> <<"/", "P", "o", "w", "e", "r">>
      [] name = "/Power/Boost" -> <<"/", "P", "o", "w", "e", "r", "/", "B", "o", "o", "s", "t">>
      [] name = "/Power2" -> <<"/", "P", "o", "w", "e", "r", "2">>
      [] name = "/Radio" -> <<"/", "R", "a", "d", "i", "o">>

\* s.startswith(p) on the characters of s and p
startswith(s, p) == Len(p) <= Len(s) /\ SubSeq(s, 1, Len(p)) = p

\* The tables read: batteries in blocks of these names
RunTables ==
    UNION { [1..n -> { ("Sheet" :> Str(BlockNames[b])) @@ ClassRow("Primary batteries (19.1)", Empty)
                       : b \in DOMAIN BlockNames }]
            : n \in 0..MaxRun }

\* df['Sheet'].unique(), as a set
all_sheets(t) == {t[i]["Sheet"].s : i \in DOMAIN t}

\* Lines 417-420: the names that start with the name selected, sorted
matching_sheets(t, name) ==
    SelectSeq(BlockNames,
              LAMBDA b : b \in all_sheets(t) /\ startswith(Spell(b), Spell(name)))

\* Lines 432-447: one entry of results per matching block
ResultsOf(t, names) ==
    [i \in DOMAIN names |->
        [Block |-> names[i],
         Lambda |-> calculate_block_reliability(t, names[i], module.NI, module.DT,
                        module.T_MISSION, module.PI_I, module.LEOS, FALSE).lambda_total,
         Reliability |-> calculate_block_reliability(t, names[i], module.NI, module.DT,
                        module.T_MISSION, module.PI_I, module.LEOS, FALSE).R_block,
         Components |-> Len(FilterSheet(t, names[i]))]]

\* Lines 480-481: the totals of the system, the reliability kept as the
\* product of the list in its order
SystemOf(res) ==
    [results |-> res,
     lambda_total |-> SumRates([i \in DOMAIN res |-> Num(res[i].Lambda)]),
     R_total |-> [k |-> "product", of |-> [i \in DOMAIN res |-> res[i].Reliability]]]

RunInit ==
    /\ \E t \in RunTables :
          given \in [df : {WithReferences(t)}, sheet_name : all_sheets(t),
                     process_subblocks : BOOLEAN]
    /\ called = "none" /\ value = None
    /\ BlockIdle /\ SeriesIdle /\ CombineIdle /\ ModuleIdle /\ MainIdle

\* Lines 404-560: execute() of run_block_reliability, for the block selected
\* among those of the file
execute ==
    /\ called = "none"
    /\ called' = "run_block_reliability"
    /\ value' = IF given.process_subblocks
                THEN Return(SystemOf(ResultsOf(given.df,
                                               matching_sheets(given.df, given.sheet_name))))
                ELSE Return(SystemOf(ResultsOf(given.df, <<given.sheet_name>>)))
    /\ UNCHANGED <<given, outside_models>>

SpecRun == RunInit /\ [][execute]_vars

-----------------------------------------------------------------------------
(* C28: the blocks processed with the block selected *)

RECURSIVE Parts(_, _)
\* The names between the '/' of a path, the empty ones dropped
Parts(c, cur) ==
    IF c = <<>> THEN (IF cur = <<>> THEN <<>> ELSE <<cur>>)
    ELSE IF Head(c) = "/" THEN (IF cur = <<>> THEN <<>> ELSE <<cur>>) \o Parts(Tail(c), <<>>)
    ELSE Parts(Tail(c), Append(cur, Head(c)))

\* Block s is block b or lies below it in the hierarchy of the paths
InSubtree(s, b) == startswith(Parts(Spell(s), <<>>), Parts(Spell(b), <<>>))

\* The blocks processed by the call
Processed == {value.v.results[i].Block : i \in DOMAIN value.v.results}

\* C28: with sub-block processing the blocks processed are exactly the block
\* selected and the blocks of the file below it in the hierarchy, each once,
\* and the total rate of the system is the sum and its reliability the
\* series product over exactly those blocks.
C28_ExactlyTheSubtree ==
    (called = "run_block_reliability" /\ given.process_subblocks) =>
        /\ Processed = {s \in all_sheets(given.df) : InSubtree(s, given.sheet_name)}
        /\ Cardinality(Processed) = Len(value.v.results)
        /\ value.v.lambda_total
              = SumOver([i \in DOMAIN given.df |-> 20000],
                        {i \in DOMAIN given.df :
                            InSubtree(given.df[i]["Sheet"].s, given.sheet_name)})
        /\ value.v.R_total.of = [i \in DOMAIN value.v.results |-> value.v.results[i].Reliability]

-----------------------------------------------------------------------------
(* C29: relia of Reliability.py and calculate_block_reliability *)

\* The classes whose branch of relia calls its model with arguments that do
\* not depend on the row
ReliaBranches == {Str("Converter <10W (19.6)"), Str("Integrated Circuit (7)")}

\* Every field the class of row i asks for is present
Complete(i) ==
    RowClass(i) = Str("Integrated Circuit (7)") =>
        \A c \in ICRequired \cup {"Lam3"} : ~isna(block_df[i][c])

\* C29: for a component of a recognized class with every field present,
\* relia and calculate_block_reliability call the same model with the same
\* arguments and so give the component the same failure rate.
C29_RoutinesAgree ==
    Done =>
        \A i \in Handled :
            (RowClass(i) \in ReliaBranches /\ Complete(i)) =>
                relia(RowClass(i), ni, dt) = lambdas[i]

-----------------------------------------------------------------------------
(* C30: categories that are present but outside their lookup table *)

\* No recorded issue names the component at position i
NoIssue(i) == \A k \in DOMAIN errors : ~Mentions(errors[k], RowRef(i))

\* The cell c of the component at position i holds a number
Numeric(i, c) == IsNum(block_df[i][c])

\* A diode whose diode_type is a text that is no key of the table of l_0_dio
UnknownDiode(i) ==
    /\ RowClass(i) \in DiodeClasses
    /\ block_df[i]["diode_type"].k = "str"
    /\ block_df[i]["diode_type"].s
          \notin {"signal", "recovery", "zener", "transient", "trigger", "gallium",
                  "thyristors"}
    /\ Numeric(i, "Temperature_Junction")

\* An integrated circuit with every required field present
FilledIC(i) ==
    /\ RowClass(i) = Str("Integrated Circuit (7)")
    /\ \A c \in ICRequired \cup {"Lam3"} : ~isna(block_df[i][c])
    /\ Numeric(i, "Construction Date") /\ Numeric(i, "Lam3")
    /\ Numeric(i, "Temperature_Junction") /\ block_df[i]["Temperature_Junction"].n > -273000

\* Its Table 16 characteristic is a text that is no key of l_1, l_2 and N
Unknown16(i) ==
    /\ block_df[i]["Table 16"].k = "str"
    /\ l_1(block_df[i]["Table 16"]) = 0 /\ l_2(block_df[i]["Table 16"]) = 0
    /\ N(block_df[i]["Table 16"]) = 0

\* Its alpha_s is not 'Epoxy', or its alpha_c is not 'FR4'
UnknownAlpha(i) ==
    block_df[i]["alpha_s"] # Str("Epoxy") \/ block_df[i]["alpha_c"] # Str("FR4")

\* 0.06 * |als - alc| ** 1.68 for the coefficients of the component at
\* position i, an unknown material counting as 0
AlphaFactor(i) ==
    (60 * PowM(IF block_df[i]["alpha_s"] = Str("Epoxy")
               THEN (IF block_df[i]["alpha_c"] = Str("FR4") THEN 5500 ELSE 16000)
               ELSE (IF block_df[i]["alpha_c"] = Str("FR4") THEN 21500 ELSE 0), 1680))
    \div 1000

\* The package term of the integrated circuit at position i
PackageOfIC(i) ==
    FMul(K((Times275e5(CycleTerm(pi_n_i(ni), dt)) * AlphaFactor(i)) \div 1000),
         block_df[i]["Lam3"])

\* The package and overstress terms of the diode at position i
RestOfDiode(i) ==
    lambda_package_d(ni, dt, l_b(block_df[i]["Table 18"]))
    + lambda_overstress_d(pi_i, leos)

\* A transistor with a junction temperature whose Transistor type is empty
\* or does not contain 'MOS'
NotMOS(i) ==
    /\ RowClass(i) \in TransistorClasses
    /\ ~isna(block_df[i]["Temperature_Junction"])
    /\ ~ContainsMOS(block_df[i]["Transistor type"])

\* The rate of the transistor at position i taken as bipolar
AsBipolar(i) ==
    lambda_transistors(ni, block_df[i]["Temperature_Junction"], "Bipolar",
                       IF RowClass(i) = Str("Low Power transistor (8.4)")
                       THEN "low" ELSE "not low",
                       dt, l_b(block_df[i]["Table 18"]), pi_i, leos,
                       OrDefault(block_df[i], "Max repetitive VCE", 0),
                       OrDefault(block_df[i], "Min specified VCE", 1),
                       OrDefault(block_df[i], "Max applied VDS", 0),
                       OrDefault(block_df[i], "Min specified VDS", 1),
                       OrDefault(block_df[i], "Max applied VGS", 0),
                       OrDefault(block_df[i], "Min specified VGS", 1))

\* C30: a category that is present but outside its lookup table neither
\* leaves the component out nor records an issue. A diode with an unknown
\* diode_type gets its package and overstress terms (die term 0), an
\* integrated circuit with an unknown Table 16 characteristic gets its package
\* term and the constant 40 (die term 0), one with an unknown material gets
\* the package term with the coefficient 0 for that material; each rate is
\* strictly positive and part of the total. A transistor whose Transistor
\* type is missing or does not contain 'MOS' gets the bipolar rate, with no
\* issue recorded.
C30_UnknownCategoryEvaluated ==
    Done =>
        \A i \in Handled :
            /\ UnknownDiode(i) =>
                  /\ lambdas[i] = Num(RestOfDiode(i))
                  /\ Positive(lambdas[i]) /\ NoIssue(i)
                  /\ ret.lambda_total >= lambdas[i].n
            /\ (FilledIC(i) /\ Unknown16(i)) =>
                  /\ lambdas[i] = FAdd(PackageOfIC(i), K(40000))
                  /\ Positive(lambdas[i]) /\ NoIssue(i)
                  /\ ret.lambda_total >= lambdas[i].n
            /\ (FilledIC(i) /\ UnknownAlpha(i)) =>
                  /\ lambdas[i] =
                        FAdd(FAdd(lambda_die_i(block_df[i]["Construction Date"],
                                               block_df[i]["Table 16"],
                                               block_df[i]["Temperature_Junction"],
                                               block_df[i]["Table 16"]),
                                  PackageOfIC(i)),
                             K(40000))
                  /\ Positive(lambdas[i]) /\ NoIssue(i)
                  /\ ret.lambda_total >= lambdas[i].n
            /\ (NotMOS(i) /\ IsNum(AsBipolar(i))) =>
                  lambdas[i] = AsBipolar(i) /\ NoIssue(i)

\* A block of a diode of the unknown type 'varicap' and an integrated circuit
\* of an unknown characteristic and substrate has been evaluated: both have a
\* positive rate and no issue is recorded
C30_Witness ==
    /\ Done /\ Len(block_df) = 2 /\ errors = <<>>
    /\ UnknownDiode(1) /\ block_df[1]["diode_type"] = Str("varicap")
    /\ FilledIC(2) /\ Unknown16(2) /\ UnknownAlpha(2)
    /\ Positive(lambdas[1]) /\ Positive(lambdas[2])
    /\ ret.lambda_total = lambdas[1].n + lambdas[2].n

=============================================================================
